---------------------------- MODULE Spec2Model ----------------------------
(***************************************************************************)
(* Ractr: the real-time simulation loop of the browser game, in its        *)
(* variants:                                                               *)
(*   "orchestrator"  src/engine/ractr_state.js  (RactrGame + RactrState)   *)
(*   "survival"      src/unnamed/part_001:1-693 (config-driven survival)   *)
(*   "arpg"          src/unnamed/part_001:695-  (Everlight Crossroads)     *)
(*   "town"          src/engine/ractr_game.js   (town / NPC dialogue)      *)
(*                                                                         *)
(* Units.  Times are in centiseconds (0.45 s = 45), lengths in pixels,     *)
(* speeds in pixels per second, experience in hundredths of a point        *)
(* (1 XP = 100), critChance in thousandths.  dt is drawn from sets of      *)
(* multiples of 5 cs and speeds are multiples of 20 px/s, so that every    *)
(* product speed * dt / 100 is a whole number of pixels.  Real numbers     *)
(* that are not multiples of a unit (the eased spawn interval) are kept    *)
(* exactly, as mixed numbers w + n/d.                                      *)
(***************************************************************************)
EXTENDS Integers, Sequences, FiniteSets, TLC

VARIABLES
  variant,   \* which RactrGame class is running
  clock,     \* frame pacing of the animation loop: which dt values occur
  game,      \* the RactrGame object (with its gameState and player)
  fetch,     \* the configuration request: "pending" | "done" | "failed"
             \* | "none"
  ticks,     \* number of update() calls so far (bounded by MaxTicks)
  last       \* history: the hazards the spawner of the last update() added
             \* (-1 when it was not invoked) and the simulated time since
             \* the last damaging hit (-1 before the first), and the run
             \* notifications sent to the net client; for the sequences
             \* of calls, the amount granted or damage dealt; for the net
             \* client, the pulses and the engine, the operation made

vars == <<variant, clock, game, fetch, ticks, last>>

-----------------------------------------------------------------------------
(* Arithmetic helpers                                                      *)

Max(a, b) == IF a >= b THEN a ELSE b

Min(a, b) == IF a <= b THEN a ELSE b

RECURSIVE Gcd(_, _)
Gcd(a, b) == IF b = 0 THEN a ELSE Gcd(b, a % b)

\* Math.round(n/d) for n >= 0, d > 0: halves round up.
Round(n, d) == (2 * n + d) \div (2 * d)

\* Math.ceil(n/d) for d > 0.
Ceil(n, d) == -((-n) \div d)

\* A fraction n/d in lowest terms.
Frac(n, d) == LET g == Gcd(n, d) IN [n |-> n \div g, d |-> d \div g]

\* A real number w + n/d with 0 <= n < d, n/d in lowest terms.
Mixed(w, n, d) == LET f == Frac(n, d) IN [w |-> w, n |-> f.n, d |-> f.d]

Whole(w) == [w |-> w, n |-> 0, d |-> 1]

\* (u.w + u.n/d) + (v.w + v.n/d), with u.n, v.n < d, never exceeding d.
PlusOver(u, v, d) ==
  IF u.n >= d - v.n THEN [w |-> u.w + v.w + 1, n |-> u.n - (d - v.n)]
  ELSE [w |-> u.w + v.w, n |-> u.n + v.n]

\* k * (n/d) for an integer k >= 0 and 0 <= n <= d, by doubling, so that no
\* intermediate value exceeds d.
RECURSIVE TimesFrac(_, _, _)
TimesFrac(k, n, d) ==
  IF n = d THEN [w |-> k, n |-> 0]
  ELSE IF k = 0 THEN [w |-> 0, n |-> 0]
  ELSE LET h == TimesFrac(k \div 2, n, d)
           twice == PlusOver(h, h, d)
       IN IF k % 2 = 1 THEN PlusOver(twice, [w |-> 0, n |-> n], d) ELSE twice

\* base + c * (n/d) as a mixed number, c any integer.
AddScaled(base, c, n, d) ==
  LET m == TimesFrac(IF c >= 0 THEN c ELSE -c, n, d) IN
  IF c >= 0 THEN Mixed(base + m.w, m.n, d)
  ELSE IF m.n = 0 THEN Whole(base - m.w)
  ELSE Mixed(base - m.w - 1, d - m.n, d)

\* r - k for a mixed number r and an integer k.
MinusInt(r, k) == [r EXCEPT !.w = @ - k]

\* r <= 0, r <= s and r = whole k for mixed numbers.
LeqZero(r) == r.w < 0 \/ (r.w = 0 /\ r.n = 0)

\* r.n/r.d <= s.n/s.d without multiplying the denominators out: both are
\* below 1, compared through their continued-fraction expansion.
RECURSIVE FracLeq(_, _, _, _)
FracLeq(a, b, c, d) ==
  \* a/b <= c/d, with b, d > 0 and a, c >= 0
  LET qa == a \div b
      qc == c \div d
  IN IF qa # qc THEN qa < qc
     ELSE LET ra == a % b
              rc == c % d
          IN IF ra = 0 THEN TRUE
             ELSE IF rc = 0 THEN FALSE
             ELSE FracLeq(d, rc, b, ra)

MixedLeq(r, s) == r.w < s.w \/ (r.w = s.w /\ FracLeq(r.n, r.d, s.n, s.d))

\* Override the fields of record a by those of record b (Object.assign).
Assign(a, b) ==
  [f \in DOMAIN a \cup DOMAIN b |-> IF f \in DOMAIN b THEN b[f] ELSE a[f]]

-----------------------------------------------------------------------------
(* Environment: the canvas, the configuration resource                     *)

\* engine.canvas as laid out by the page (CSS pixels).
Canvas == [clientWidth |-> 240, clientHeight |-> 160]

\* canvas.clientWidth || 800, canvas.clientHeight || 600 of the game g, whose
\* canvas is this.engine.canvas
CanvasW(g) == IF g.canvas.clientWidth = 0 THEN 800 ELSE g.canvas.clientWidth

CanvasH(g) == IF g.canvas.clientHeight = 0 THEN 600 ELSE g.canvas.clientHeight

\* this.config of the orchestrator's constructor (the groups the
\* simulation reads; visuals, meta and net do not enter it).
DefaultConfig ==
  [player |->
     [maxHealth |-> 100, dashCooldown |-> 60, baseSpeed |-> 180,
      dashSpeed |-> 360, baseMaxMana |-> 50, baseAttackPower |-> 10,
      baseDefense |-> 2, baseCritChance |-> 50,
      baseXpPerSecondSurvived |-> 1, baseStrength |-> 10,
      baseAgility |-> 10, baseIntelligence |-> 10],
   hazards |->
     [baseSpawnInterval |-> 140, minSpawnInterval |-> 50,
      baseSpeed |-> 80, randomSpeed |-> 140, damagePerHit |-> 20,
      maxOnScreen |-> 40, xpOnHitTaken |-> 2],
   difficulty |->
     [speedIncreasePerSecond |-> 10,
      spawnCountIncreaseTimes |-> <<1000, 2000, 3000>>],
   progression |->
     [baseXpToLevel |-> 100, hpPerLevel |-> 10, manaPerLevel |-> 5,
      attackPerLevel |-> 2, defensePerLevel |-> 1, strengthPerLevel |-> 1,
      agilityPerLevel |-> 1, intelligencePerLevel |-> 1]]

\* A record with no field: a configuration that names no group.
NoFields == [f \in {} |-> 0]

\* Contents engine/ractr_config.json may have: any subset of the groups,
\* each with any subset of its fields.
FetchedConfigs ==
  { NoFields,
    [player |-> [maxHealth |-> 5],
     hazards |-> [maxOnScreen |-> 2, baseSpawnInterval |-> 40,
                  minSpawnInterval |-> 20],
     difficulty |-> [spawnCountIncreaseTimes |-> <<0, 3000>>],
     progression |-> [baseXpToLevel |-> 1]],
    [hazards |-> [maxOnScreen |-> 0]] }

-----------------------------------------------------------------------------
(* Orchestrator: state construction and configuration                      *)

\* Pow13[n + 1] is Math.pow(n, 1.3) in units of 10^-5, for n = 0 .. 20.
Pow13 ==
  <<0, 100000, 246228, 417116, 606286, 810328, 1027061, 1254952, 1492852,
    1739863, 1995262, 2258450, 2528923, 2806249, 3090056, 3380015, 3675834,
    3977256, 4284047, 4595996, 4912912>>

\* _computeXpForLevel(level, progCfg), in hundredths of a point.
ComputeXpForLevel(level, progCfg) ==
  LET base == IF progCfg.baseXpToLevel = 0 THEN 100 ELSE progCfg.baseXpToLevel
      clampedLevel == Max(1, level)
  IN 100 * (((base * Pow13[clampedLevel]) \div 100000) + base)

\* new RactrPlayerState(config, config.meta)
RactrPlayerState(config) ==
  LET pc == config.player IN
  [level |-> 1, xp |-> 0, xpToNext |-> 100 * 100,
   strength |-> pc.baseStrength, agility |-> pc.baseAgility,
   intelligence |-> pc.baseIntelligence,
   maxHealth |-> pc.maxHealth, health |-> pc.maxHealth,
   maxMana |-> pc.baseMaxMana, mana |-> pc.baseMaxMana,
   attackPower |-> pc.baseAttackPower, defense |-> pc.baseDefense,
   critChance |-> pc.baseCritChance, gold |-> 0,
   x |-> 200, y |-> 200, vx |-> 0, vy |-> 0, radius |-> 16,
   baseSpeed |-> pc.baseSpeed, dashSpeed |-> pc.dashSpeed,
   dashCooldown |-> 0, invulnTime |-> 0, initializedFromConfig |-> FALSE]

\* new RactrGame(engine): RactrGameState plus the orchestrator's own fields.
RactrGame ==
  [state |-> "intro", time |-> 0, timeAlive |-> 0, bestTime |-> 0,
   canvas |-> Canvas,
   player |-> RactrPlayerState(DefaultConfig), hazards |-> <<>>,
   config |-> DefaultConfig,
   spawnTimer |-> Whole(0),
   spawnInterval |-> Whole(DefaultConfig.hazards.baseSpawnInterval),
   lastHitTime |-> -99900, lastNearMissTime |-> -99900,
   lastNearMissPulseTime |-> -99900, nearMissStreak |-> 0,
   pulses |-> <<>>]

\* A re-derivation that adds the strength bonus to the current maximum.
ApplyConfigStacking(g) ==
  LET maxHealth == g.player.maxHealth + Round(g.config.player.baseStrength * 15, 10)
  IN [g EXCEPT !.player.maxHealth = maxHealth,
               !.player.health = Min(@, maxHealth),
               !.player.initializedFromConfig = TRUE]

\* A re-derivation that refills health whatever the run state.
ApplyConfigRefill(g) ==
  LET maxHealth == g.config.player.maxHealth
                     + Round(g.config.player.baseStrength * 15, 10)
  IN [g EXCEPT !.player.maxHealth = maxHealth,
               !.player.health = maxHealth,
               !.player.initializedFromConfig = TRUE]

\* _applyConfigToPlayer()
ApplyConfigToPlayer(g) ==
  LET pCfg == g.config.player
      progCfg == g.config.progression
      p0 == [g.player EXCEPT !.baseSpeed = pCfg.baseSpeed,
                             !.dashSpeed = pCfg.dashSpeed]
  IN
  IF ~p0.initializedFromConfig THEN
    LET level == IF p0.level = 0 THEN 1 ELSE p0.level
        str == pCfg.baseStrength
        agi == pCfg.baseAgility
        int == pCfg.baseIntelligence
        maxHealth == pCfg.maxHealth + Round(str * 15, 10)
        maxMana == pCfg.baseMaxMana + Round(int * 12, 10)
    IN [g EXCEPT !.player =
          [p0 EXCEPT !.level = level,
                     !.strength = str, !.agility = agi, !.intelligence = int,
                     !.maxHealth = maxHealth, !.maxMana = maxMana,
                     !.attackPower = pCfg.baseAttackPower + Round(str * 6, 10)
                                       + Round(agi * 2, 10),
                     !.defense = pCfg.baseDefense + Round(str * 3, 10),
                     !.critChance = pCfg.baseCritChance + agi,
                     !.health = maxHealth, !.mana = maxMana,
                     !.xpToNext = ComputeXpForLevel(level + 1, progCfg),
                     !.initializedFromConfig = TRUE]]
  ELSE
    LET levelBonus == p0.level - 1
        str == pCfg.baseStrength + progCfg.strengthPerLevel * levelBonus
        agi == pCfg.baseAgility + progCfg.agilityPerLevel * levelBonus
        int == pCfg.baseIntelligence + progCfg.intelligencePerLevel * levelBonus
        maxHealth == pCfg.maxHealth + Round(str * 15, 10)
                       + levelBonus * progCfg.hpPerLevel
        maxMana == pCfg.baseMaxMana + Round(int * 12, 10)
                       + levelBonus * progCfg.manaPerLevel
    IN [g EXCEPT !.player =
          [p0 EXCEPT !.strength = str, !.agility = agi, !.intelligence = int,
                     !.maxHealth = maxHealth, !.maxMana = maxMana,
                     !.attackPower = pCfg.baseAttackPower + Round(str * 6, 10)
                                       + Round(agi * 2, 10)
                                       + levelBonus * progCfg.attackPerLevel,
                     !.defense = pCfg.baseDefense + Round(str * 3, 10)
                                       + levelBonus * progCfg.defensePerLevel,
                     !.critChance = pCfg.baseCritChance + agi,
                     !.health = IF g.state # "playing" THEN maxHealth
                                ELSE Min(@, maxHealth),
                     !.mana = IF g.state # "playing" THEN maxMana
                              ELSE Min(@, maxMana)]]

\* The .then handler of _loadConfig(): merge the groups the resource has,
\* re-derive the player, reset the spawn interval.
LoadConfig(g, cfg) ==
  LET Group(name) == IF name \in DOMAIN cfg
                     THEN Assign(g.config[name], cfg[name])
                     ELSE g.config[name]
      merged == [name \in DOMAIN g.config |-> Group(name)]
      g1 == ApplyConfigToPlayer([g EXCEPT !.config = merged])
  IN [g1 EXCEPT !.spawnInterval = Whole(merged.hazards.baseSpawnInterval)]

\* A start that begins the progression anew.
StartGameFromLevelOne(g) ==
  LET g1 == ApplyConfigToPlayer([g EXCEPT !.player.level = 1, !.player.xp = 0])
      p == g1.player
  IN
  [g1 EXCEPT !.player = [p EXCEPT !.x = CanvasW(g) \div 2, !.y = CanvasH(g) \div 2,
                                  !.vx = 0, !.vy = 0, !.dashCooldown = 0,
                                  !.health = p.maxHealth, !.mana = p.maxMana,
                                  !.invulnTime = 0],
             !.hazards = <<>>,
             !.spawnTimer = Whole(40),
             !.spawnInterval = Whole(g1.config.hazards.baseSpawnInterval),
             !.timeAlive = 0,
             !.state = "playing",
             !.nearMissStreak = 0,
             !.pulses = <<>>,
             !.lastHitTime = -99900, !.lastNearMissTime = -99900,
             !.lastNearMissPulseTime = -99900]

\* A start that leaves the collections and cooldowns of the last run.
StartGameKeepRun(g) ==
  LET g1 == ApplyConfigToPlayer(g) IN
  [g1 EXCEPT !.player.health = g1.player.maxHealth,
             !.player.mana = g1.player.maxMana,
             !.timeAlive = 0,
             !.state = "playing"]

\* _startGame()
StartGame(g) ==
  LET g1 == ApplyConfigToPlayer(g)
      p == g1.player
  IN
  [g1 EXCEPT !.player = [p EXCEPT !.x = CanvasW(g) \div 2, !.y = CanvasH(g) \div 2,
                                  !.vx = 0, !.vy = 0, !.dashCooldown = 0,
                                  !.health = p.maxHealth, !.mana = p.maxMana,
                                  !.invulnTime = 0],
             !.hazards = <<>>,
             !.spawnTimer = Whole(40),
             !.spawnInterval = Whole(g1.config.hazards.baseSpawnInterval),
             !.timeAlive = 0,
             !.state = "playing",
             !.nearMissStreak = 0,
             !.pulses = <<>>,
             !.lastHitTime = -99900, !.lastNearMissTime = -99900,
             !.lastNearMissPulseTime = -99900]

-----------------------------------------------------------------------------
(* Orchestrator: the update pipeline                                       *)

\* this.difficultyDuration (60 s)
difficultyDuration == 6000

\* The factor without its clamp.
DifficultyFactorUnclamped(timeAlive) == Frac(timeAlive, difficultyDuration)

\* _difficultyFactor(): t / difficultyDuration as a fraction in lowest terms.
DifficultyFactor(timeAlive) ==
  LET t == Max(0, Min(difficultyDuration, timeAlive))
  IN Frac(t, difficultyDuration)

\* A linear ramp in place of the smoothstep.
Linear(f) == [n |-> f.n, d |-> f.d]

\* factor * factor * (3 - 2 * factor) of update(), as a fraction n/d.
Eased(f) == [n |-> f.n * f.n * (3 * f.d - 2 * f.n), d |-> f.d * f.d * f.d]

\* baseInterval + (targetInterval - baseInterval) * eased of update().
SpawnIntervalAt(timeAlive, hCfg) ==
  LET e == Eased(DifficultyFactor(timeAlive))
  IN AddScaled(hCfg.baseSpawnInterval,
               hCfg.minSpawnInterval - hCfg.baseSpawnInterval, e.n, e.d)

\* _registerPulse() that never drops a pulse.
RegisterPulseUncapped(pulses, x, y, color, radius, duration, thickness) ==
  Append(pulses, [x |-> x, y |-> y, radius |-> Frac(radius, 1),
                  maxRadius |-> radius, color |-> color, life |-> duration,
                  maxLife |-> duration, thickness |-> thickness])

\* _registerPulse(x, y, color, radius, duration, thickness); the pulse's
\* radius is kept as the fraction maxRadius * life / maxLife.
RegisterPulse(pulses, x, y, color, radius, duration, thickness) ==
  LET kept == IF Len(pulses) > 64 THEN Tail(pulses) ELSE pulses
  IN Append(kept, [x |-> x, y |-> y, radius |-> Frac(radius, 1),
                   maxRadius |-> radius, color |-> color, life |-> duration,
                   maxLife |-> duration, thickness |-> thickness])

\* _updatePulses(dt)
UpdatePulses(pulses, dt) ==
  LET Decay(p) == [p EXCEPT !.life = @ - dt,
                            !.radius = IF p.life - dt > 0
                                       THEN Frac(p.maxRadius * (p.life - dt), p.maxLife)
                                       ELSE Frac(0, 1)]
      decayed == [i \in 1..Len(pulses) |-> Decay(pulses[i])]
  IN SelectSeq(decayed, LAMBDA p : p.life > 0)

\* An _updatePlayer() that leaves the position where the velocity takes it.
UpdatePlayerUnclamped(g, dt, input) ==
  LET p == g.player
      dashing == input.dash /\ p.dashCooldown <= 0
      speed == IF dashing THEN p.dashSpeed ELSE p.baseSpeed
      cooldown == IF dashing THEN g.config.player.dashCooldown
                  ELSE p.dashCooldown
      moveX == (IF input.right THEN 1 ELSE 0) - (IF input.left THEN 1 ELSE 0)
      moveY == (IF input.down THEN 1 ELSE 0) - (IF input.up THEN 1 ELSE 0)
  IN [g EXCEPT !.player =
        [p EXCEPT !.invulnTime = IF @ > 0 THEN Max(0, @ - dt) ELSE @,
                  !.dashCooldown = Max(0, cooldown - dt),
                  !.vx = moveX * speed, !.vy = moveY * speed,
                  !.x = @ + (moveX * speed * dt) \div 100,
                  !.y = @ + (moveY * speed * dt) \div 100]]

\* An _updatePlayer() whose dash waits for no cooldown.
UpdatePlayerDashAtWill(g, dt, input) ==
  LET p == g.player
      speed == IF input.dash THEN p.dashSpeed ELSE p.baseSpeed
      cooldown == IF input.dash THEN g.config.player.dashCooldown
                  ELSE p.dashCooldown
      moveX == (IF input.right THEN 1 ELSE 0) - (IF input.left THEN 1 ELSE 0)
      moveY == (IF input.down THEN 1 ELSE 0) - (IF input.up THEN 1 ELSE 0)
      x == p.x + (moveX * speed * dt) \div 100
      y == p.y + (moveY * speed * dt) \div 100
  IN [g EXCEPT !.player =
        [p EXCEPT !.invulnTime = IF @ > 0 THEN Max(0, @ - dt) ELSE @,
                  !.dashCooldown = Max(0, cooldown - dt),
                  !.vx = moveX * speed, !.vy = moveY * speed,
                  !.x = Min(Max(p.radius + 8, x), CanvasW(g) - p.radius - 8),
                  !.y = Min(Max(p.radius + 8, y), CanvasH(g) - p.radius - 8)]]

\* _updatePlayer(dt, input).  Math.hypot(moveX, moveY) || 1 is 1 for every
\* input with at most one axis held, the inputs drawn here.
UpdatePlayer(g, dt, input) ==
  LET p == g.player
      pCfg == g.config.player
      invulnTime == IF p.invulnTime > 0 THEN Max(0, p.invulnTime - dt)
                    ELSE p.invulnTime
      dashing == input.dash /\ p.dashCooldown <= 0
      speed == IF dashing THEN p.dashSpeed ELSE p.baseSpeed
      cooldown == IF dashing THEN pCfg.dashCooldown ELSE p.dashCooldown
      moveX == (IF input.right THEN 1 ELSE 0) - (IF input.left THEN 1 ELSE 0)
      moveY == (IF input.down THEN 1 ELSE 0) - (IF input.up THEN 1 ELSE 0)
      mag == 1
      vx == (moveX \div mag) * speed
      vy == (moveY \div mag) * speed
      x == p.x + (vx * dt) \div 100
      y == p.y + (vy * dt) \div 100
  IN [g EXCEPT !.player =
        [p EXCEPT !.invulnTime = invulnTime,
                  !.dashCooldown = Max(0, cooldown - dt),
                  !.vx = vx, !.vy = vy,
                  !.x = Min(Max(p.radius + 8, x), CanvasW(g) - p.radius - 8),
                  !.y = Min(Max(p.radius + 8, y), CanvasH(g) - p.radius - 8)]]

\* _currentHazardSpeed() as the fraction n/d, d = 10 * difficultyDuration:
\* baseSpeed * (1 + 0.6 * factor) + speedIncreasePerSecond * 0.15 * timeAlive
CurrentHazardSpeed(g) ==
  LET t == Max(0, Min(difficultyDuration, g.timeAlive))
  IN [n |-> g.config.hazards.baseSpeed * (10 * difficultyDuration + 6 * t)
            + 15 * g.config.difficulty.speedIncreasePerSecond * g.timeAlive
                 * (difficultyDuration \div 1000),
      d |-> 10 * difficultyDuration]

\* The size multiplier 0.6 + 0.8 * sizeFactor of _spawnHazard(), with
\* sizeFactor = 0.5 + 0.5 * factor, as a fraction n/d.
SizeMultiplier(g) ==
  LET t == Max(0, Min(difficultyDuration, g.timeAlive))
  IN [n |-> 10 * difficultyDuration + 4 * t, d |-> 10 * difficultyDuration]

\* The number of hazards one _spawnHazard() call adds.
SpawnCount(g) ==
  LET times == g.config.difficulty.spawnCountIncreaseTimes
      spawnCount == 1 + Cardinality({i \in 1..Len(times) : g.timeAlive >= times[i]})
      maxOnScreen == IF g.config.hazards.maxOnScreen = 0 THEN 40
                     ELSE g.config.hazards.maxOnScreen
      availableSlots == Max(0, maxOnScreen - Len(g.hazards))
  IN IF availableSlots <= 0 THEN 0 ELSE Min(spawnCount, availableSlots)

\* What Math.random() may yield for one hazard: the edge, the position along
\* it, the speed (the current hazard speed plus a bonus in [0, randomSpeed)),
\* the drift (in [-20, 20)) and the radius (a base radius in [8, 16) times
\* the size multiplier).
IsSpawnOutcome(g, o) ==
  LET cs == CurrentHazardSpeed(g)
      sm == SizeMultiplier(g)
  IN /\ o.edge \in 0..3
     /\ o.along >= 0
     /\ o.along < (IF o.edge \in {0, 2} THEN CanvasW(g) ELSE CanvasH(g))
     /\ o.speed * cs.d >= cs.n
     /\ o.speed * cs.d < cs.n + g.config.hazards.randomSpeed * cs.d
     /\ o.drift >= -20 /\ o.drift < 20
     /\ o.radius * sm.d >= 8 * sm.n
     /\ o.radius * sm.d < 16 * sm.n

\* The hazard _spawnHazard() pushes for one outcome of Math.random().
NewHazard(g, o) ==
  LET at == CASE o.edge = 0 -> [x |-> o.along, y |-> -20, vx |-> o.drift, vy |-> o.speed]
              [] o.edge = 1 -> [x |-> CanvasW(g) + 20, y |-> o.along, vx |-> -o.speed, vy |-> o.drift]
              [] o.edge = 2 -> [x |-> o.along, y |-> CanvasH(g) + 20, vx |-> o.drift, vy |-> -o.speed]
              [] OTHER -> [x |-> -20, y |-> o.along, vx |-> o.speed, vy |-> o.drift]
  IN [x |-> at.x, y |-> at.y, vx |-> at.vx, vy |-> at.vy,
      radius |-> o.radius, radiusSq |-> o.radius * o.radius]

\* _spawnHazard(), rnd the outcomes of Math.random() for the hazards added.
SpawnHazard(g, rnd) ==
  [g EXCEPT !.hazards = @ \o [i \in 1..SpawnCount(g) |-> NewHazard(g, rnd[i])]]

\* An _updateHazards() whose timer carries the overshoot into the next
\* interval.
UpdateHazardsCarriesOver(g, dt, rnd) ==
  LET timer == MinusInt(g.spawnTimer, dt)
      g1 == IF LeqZero(timer)
            THEN [SpawnHazard(g, rnd) EXCEPT
                    !.spawnTimer = [w |-> timer.w + g.spawnInterval.w,
                                    n |-> g.spawnInterval.n,
                                    d |-> g.spawnInterval.d]]
            ELSE [g EXCEPT !.spawnTimer = timer]
      Move(h) == [h EXCEPT !.x = @ + (h.vx * dt) \div 100,
                           !.y = @ + (h.vy * dt) \div 100]
      moved == [i \in 1..Len(g1.hazards) |-> Move(g1.hazards[i])]
  IN [g1 EXCEPT !.hazards =
        SelectSeq(moved, LAMBDA h : ~(h.x < -80 \/ h.x > CanvasW(g) + 80
                                      \/ h.y < -80 \/ h.y > CanvasH(g) + 80))]

\* _updateHazards(dt)
UpdateHazards(g, dt, rnd) ==
  LET timer == MinusInt(g.spawnTimer, dt)
      g1 == IF LeqZero(timer)
            THEN [SpawnHazard(g, rnd) EXCEPT !.spawnTimer = g.spawnInterval]
            ELSE [g EXCEPT !.spawnTimer = timer]
      margin == 80
      Move(h) == [h EXCEPT !.x = @ + (h.vx * dt) \div 100,
                           !.y = @ + (h.vy * dt) \div 100]
      moved == [i \in 1..Len(g1.hazards) |-> Move(g1.hazards[i])]
  IN [g1 EXCEPT !.hazards =
        SelectSeq(moved, LAMBDA h : ~(h.x < -margin \/ h.x > CanvasW(g) + margin
                                      \/ h.y < -margin \/ h.y > CanvasH(g) + margin))]

\* _grantXp(amount), amount in hundredths of a point: the level-up loop.
RECURSIVE LevelUpLoop(_)
LevelUpLoop(g) ==
  LET p == g.player
      progCfg == g.config.progression
  IN
  IF ~(p.xp >= p.xpToNext) THEN g
  ELSE
    LET strGain == progCfg.strengthPerLevel
        agiGain == progCfg.agilityPerLevel
        intGain == progCfg.intelligencePerLevel
        hpGain == progCfg.hpPerLevel
        manaGain == progCfg.manaPerLevel
        maxHealth == p.maxHealth + hpGain + Round(strGain * 15, 10)
        maxMana == p.maxMana + manaGain + Round(intGain * 12, 10)
    IN LevelUpLoop(
         [g EXCEPT
            !.player =
              [p EXCEPT !.xp = @ - p.xpToNext,
                        !.level = @ + 1,
                        !.strength = @ + strGain,
                        !.agility = @ + agiGain,
                        !.intelligence = @ + intGain,
                        !.maxHealth = maxHealth,
                        !.maxMana = maxMana,
                        !.attackPower = @ + progCfg.attackPerLevel
                                          + Round(strGain * 6, 10)
                                          + Round(agiGain * 2, 10),
                        !.defense = @ + progCfg.defensePerLevel
                                      + Round(strGain * 3, 10),
                        !.critChance = @ + agiGain,
                        !.health = Min(maxHealth, p.health + Max(5, hpGain)),
                        !.mana = Min(maxMana, p.mana + Max(3, manaGain)),
                        !.xpToNext = ComputeXpForLevel(p.level + 2, progCfg)],
            !.pulses = RegisterPulse(@, p.x, p.y, "rgba(120, 230, 255, 0.9)",
                                     p.radius + 40, 60, 40)])

\* A grant that never levels the player up.
GrantXpNoLevelUp(g, amount) == [g EXCEPT !.player.xp = @ + amount]

\* A grant whose level-ups discard the experience beyond the threshold.
GrantXpDropsRemainder(g, amount) ==
  LET g1 == LevelUpLoop([g EXCEPT !.player.xp = @ + amount])
  IN IF amount <= 0 THEN g
     ELSE IF g1.player.level > g.player.level
          THEN [g1 EXCEPT !.player.xp = 0]
          ELSE g1

\* A grant whose level-ups raise the maxima and only clamp health and mana.
GrantXpClampsOnly(g, amount) ==
  LET g1 == LevelUpLoop([g EXCEPT !.player.xp = @ + amount])
  IN IF amount <= 0 THEN g
     ELSE [g1 EXCEPT !.player.health = Min(g1.player.maxHealth, g.player.health),
                     !.player.mana = Min(g1.player.maxMana, g.player.mana)]

\* _grantXp(amount)
GrantXp(g, amount) ==
  IF amount <= 0 THEN g
  ELSE LevelUpLoop([g EXCEPT !.player.xp = @ + amount])

\* A progression that grants a point of experience per frame.
ProgressionPerFrame(g, dt) == GrantXp(g, 100)

\* _updatePlayerProgression(dt): baseXpPerSecondSurvived * dt
UpdatePlayerProgression(g, dt) ==
  LET xpRate == g.config.player.baseXpPerSecondSurvived
  IN IF xpRate > 0 THEN GrantXp(g, xpRate * dt) ELSE g

\* A hit that records no end of the run.
TakeHitNoEnd(g) ==
  [g EXCEPT !.player.health = Max(0, @ - g.config.hazards.damagePerHit),
            !.player.invulnTime = 45,
            !.lastHitTime = g.time]

\* A hit whose death records the run's time as the best time outright.
TakeHitLastTime(g) ==
  LET health == Max(0, g.player.health - g.config.hazards.damagePerHit) IN
  [g EXCEPT !.player.health = health,
            !.player.invulnTime = 45,
            !.lastHitTime = g.time,
            !.state = IF health <= 0 THEN "gameover" ELSE @,
            !.bestTime = IF health <= 0 THEN g.timeAlive ELSE @]

\* A hit that opens no invulnerability window.
TakeHitNoWindow(g) ==
  LET p == g.player
      health == Max(0, p.health - g.config.hazards.damagePerHit)
  IN [g EXCEPT
        !.player.health = health,
        !.lastHitTime = g.time,
        !.pulses = RegisterPulse(@, p.x, p.y, "rgba(255, 90, 120, 0.9)",
                                 p.radius + 32, 32, 35),
        !.state = IF health <= 0 THEN "gameover" ELSE @,
        !.bestTime = IF health <= 0 THEN Max(g.bestTime, g.timeAlive) ELSE @]

\* The damaging branch of _checkCollisions(): a hazard overlaps the player,
\* who is not invulnerable.
TakeHit(g) ==
  LET p == g.player
      health == Max(0, p.health - g.config.hazards.damagePerHit)
      dead == health <= 0
  IN [g EXCEPT
        !.player = [p EXCEPT !.health = health, !.invulnTime = 45],
        !.lastHitTime = g.time,
        !.pulses = RegisterPulse(@, p.x, p.y, "rgba(255, 90, 120, 0.9)",
                                 p.radius + 32, 32, 35),
        !.state = IF dead THEN "gameover" ELSE @,
        !.bestTime = IF dead THEN Max(g.bestTime, g.timeAlive) ELSE @]

\* A hit test that leaves the boundary out.
InsideHitRadius(distSq, hitRadiusSq) == distSq < hitRadiusSq

\* The hit test of _checkCollisions(): distSq <= hitRadiusSq.
WithinHitRadius(distSq, hitRadiusSq) == distSq <= hitRadiusSq

\* One iteration of the loop of _checkCollisions() over the hazard hzd;
\* a carries the game with the flags hadHit and registeredNearMiss.
CollideWith(a, hzd) ==
  LET g == a.g
      p == g.player
      dx == hzd.x - p.x
      dy == hzd.y - p.y
      distSq == dx * dx + dy * dy
      r == hzd.radius + p.radius
      nearR == r + 14
  IN
  IF WithinHitRadius(distSq, r * r) THEN
    IF p.invulnTime <= 0
    THEN [a EXCEPT !.hadHit = TRUE, !.g = TakeHit(g)]
    ELSE a
  ELSE IF distSq <= nearR * nearR THEN
    LET pulse == g.time - g.lastNearMissPulseTime > 9 IN
    [a EXCEPT
       !.registeredNearMiss = TRUE,
       !.g = [g EXCEPT
                !.lastNearMissTime = g.time,
                !.lastNearMissPulseTime = IF pulse THEN g.time ELSE @,
                !.pulses = IF pulse
                           THEN RegisterPulse(@, p.x, p.y, "rgba(245, 215, 110, 0.8)",
                                              p.radius + 20, 24, 24)
                           ELSE @]]
  ELSE a

RECURSIVE CollideFrom(_, _, _)
CollideFrom(a, hazards, i) ==
  IF i > Len(hazards) THEN a
  ELSE CollideFrom(CollideWith(a, hazards[i]), hazards, i + 1)

\* A collision pass whose damaging hit leaves the near-miss streak.
CheckCollisionsKeepsStreak(g) ==
  IF g.player.health <= 0 THEN g
  ELSE
    LET a == CollideFrom([g |-> g, hadHit |-> FALSE, registeredNearMiss |-> FALSE],
                         g.hazards, 1)
    IN IF a.hadHit
       THEN GrantXp(a.g, 100 * a.g.config.hazards.xpOnHitTaken)
       ELSE IF a.registeredNearMiss
       THEN [a.g EXCEPT !.nearMissStreak = Min(@ + 1, 99)]
       ELSE a.g

\* _checkCollisions()
CheckCollisions(g) ==
  IF g.player.health <= 0 THEN g
  ELSE
    LET a == CollideFrom([g |-> g, hadHit |-> FALSE, registeredNearMiss |-> FALSE],
                         g.hazards, 1)
    IN IF a.hadHit
       THEN GrantXp([a.g EXCEPT !.nearMissStreak = 0],
                    100 * a.g.config.hazards.xpOnHitTaken)
       ELSE IF a.registeredNearMiss
       THEN [a.g EXCEPT !.nearMissStreak = Min(@ + 1, 99)]
       ELSE a.g

\* The head of a playing update(): the run's clock advances and the spawn
\* interval follows the difficulty.
AdvanceRun(g, dt) ==
  [g EXCEPT !.timeAlive = @ + dt,
            !.spawnInterval = SpawnIntervalAt(g.timeAlive + dt, g.config.hazards)]

\* An update whose survival clock also runs outside a run.
UpdateClockAlways(g, dt, input, rnd) ==
  LET g1 == [g EXCEPT !.time = @ + dt, !.pulses = UpdatePulses(@, dt)] IN
  IF g1.state # "playing" THEN [g1 EXCEPT !.timeAlive = @ + dt]
  ELSE UpdatePlayerProgression(
         CheckCollisions(
           UpdateHazards(UpdatePlayer(AdvanceRun(g1, dt), dt, input), dt, rnd)),
         dt)

\* An update that decays the pulses after the stages of the run.
UpdatePulsesLast(g, dt, input, rnd) ==
  LET g1 == [g EXCEPT !.time = @ + dt] IN
  IF g1.state # "playing" THEN [g1 EXCEPT !.pulses = UpdatePulses(@, dt)]
  ELSE
    LET g7 == UpdatePlayerProgression(
                CheckCollisions(
                  UpdateHazards(UpdatePlayer(AdvanceRun(g1, dt), dt, input),
                                dt, rnd)),
                dt)
    IN [g7 EXCEPT !.pulses = UpdatePulses(@, dt)]

\* update(dt, input); rnd are the outcomes of Math.random() for the hazards
\* this tick spawns.
Update(g, dt, input, rnd) ==
  LET g1 == [g EXCEPT !.time = @ + dt, !.pulses = UpdatePulses(@, dt)] IN
  IF g1.state # "playing" THEN g1
  ELSE
    LET g3 == AdvanceRun(g1, dt)
        g4 == UpdatePlayer(g3, dt, input)
        g5 == UpdateHazards(g4, dt, rnd)
        g6 == CheckCollisions(g5)
    IN UpdatePlayerProgression(g6, dt)

\* The number of hazards update(dt, .) spawns from g.
SpawnsDue(g, dt) ==
  IF g.state = "playing" /\ LeqZero(MinusInt(g.spawnTimer, dt))
  THEN SpawnCount([g EXCEPT !.timeAlive = @ + dt])
  ELSE 0

-----------------------------------------------------------------------------
(* Survival variant (the config-driven mini-game).  Its _difficultyFactor, *)
(* _updatePlayer, _currentHazardSpeed, _spawnHazard, _updateHazards,       *)
(* _registerPulse, _updatePulses and the hazard loop of _checkCollisions   *)
(* are the orchestrator's, statement for statement; the operators above    *)
(* model both.  Reading a field of a group the fetched configuration does  *)
(* not have throws a TypeError, which ends the running handler.            *)

\* this.config of the survival constructor.
SurvDefaultConfig ==
  [player |->
     [maxHealth |-> 100, dashCooldown |-> 60, baseSpeed |-> 180,
      dashSpeed |-> 360],
   hazards |->
     [baseSpawnInterval |-> 140, minSpawnInterval |-> 40,
      baseSpeed |-> 80, randomSpeed |-> 140, damagePerHit |-> 20,
      maxOnScreen |-> 42],
   difficulty |->
     [speedIncreasePerSecond |-> 10,
      spawnCountIncreaseTimes |-> <<1200, 2400, 3600>>]]

\* Contents of engine/ractr_config.json drawn for the survival variant,
\* which takes the resource as its whole configuration: a complete one,
\* and one with the player group only.
SurvFetchedConfigs ==
  { [player |-> [maxHealth |-> 20, dashCooldown |-> 60, baseSpeed |-> 180,
                 dashSpeed |-> 360],
     hazards |-> [baseSpawnInterval |-> 40, minSpawnInterval |-> 20,
                  baseSpeed |-> 80, randomSpeed |-> 140, damagePerHit |-> 20,
                  maxOnScreen |-> 2],
     difficulty |-> [speedIncreasePerSecond |-> 10,
                     spawnCountIncreaseTimes |-> <<0, 3000>>]],
    [player |-> [maxHealth |-> 60, dashCooldown |-> 60, baseSpeed |-> 180,
                 dashSpeed |-> 360]] }

Has(g, group) == group \in DOMAIN g.config

\* new RactrGame(engine) of the survival variant
SurvGame ==
  [state |-> "intro", time |-> 0, timeAlive |-> 0, bestTime |-> 0,
   canvas |-> Canvas,
   player |-> [x |-> 200, y |-> 200, vx |-> 0, vy |-> 0, radius |-> 16,
               baseSpeed |-> SurvDefaultConfig.player.baseSpeed,
               dashSpeed |-> SurvDefaultConfig.player.dashSpeed,
               dashCooldown |-> 0,
               maxHealth |-> SurvDefaultConfig.player.maxHealth,
               health |-> SurvDefaultConfig.player.maxHealth,
               invulnTime |-> 0],
   hazards |-> <<>>,
   config |-> SurvDefaultConfig,
   spawnTimer |-> Whole(0),
   spawnInterval |-> Whole(SurvDefaultConfig.hazards.baseSpawnInterval),
   lastHitTime |-> -99900, lastNearMissTime |-> -99900,
   lastNearMissPulseTime |-> -99900, nearMissStreak |-> 0,
   pulses |-> <<>>]

\* _applyConfigToPlayer() of the survival variant (the player group exists)
SurvApplyConfigToPlayer(g) ==
  LET pCfg == g.config.player IN
  [g EXCEPT !.player =
     [@ EXCEPT !.baseSpeed = pCfg.baseSpeed,
               !.dashSpeed = pCfg.dashSpeed,
               !.maxHealth = pCfg.maxHealth,
               !.health = IF g.state # "playing" THEN pCfg.maxHealth
                          ELSE Min(@, pCfg.maxHealth)]]

\* The .then handler of the survival _loadConfig(), with its .catch.
SurvLoadConfig(g, cfg) ==
  LET g1 == [g EXCEPT !.config = cfg] IN
  IF ~Has(g1, "player") THEN g1
  ELSE LET g2 == SurvApplyConfigToPlayer(g1) IN
       IF ~Has(g2, "hazards") THEN g2
       ELSE [g2 EXCEPT !.spawnInterval = Whole(cfg.hazards.baseSpawnInterval)]

\* _startGame() of the survival variant
SurvStartGame(g) ==
  IF ~Has(g, "player") THEN g
  ELSE
    LET g1 == SurvApplyConfigToPlayer(g)
        p == g1.player
        g2 == [g1 EXCEPT
                 !.player = [p EXCEPT !.x = CanvasW(g) \div 2, !.y = CanvasH(g) \div 2,
                                      !.vx = 0, !.vy = 0, !.dashCooldown = 0,
                                      !.health = p.maxHealth, !.invulnTime = 0],
                 !.hazards = <<>>,
                 !.spawnTimer = Whole(40)]
    IN IF ~Has(g2, "hazards") THEN g2
       ELSE [g2 EXCEPT
               !.spawnInterval = Whole(g2.config.hazards.baseSpawnInterval),
               !.timeAlive = 0,
               !.nearMissStreak = 0,
               !.state = "playing",
               !.pulses = <<>>,
               !.lastHitTime = -99900, !.lastNearMissTime = -99900,
               !.lastNearMissPulseTime = -99900]

\* _checkCollisions() of the survival variant
SurvCheckCollisions(g) ==
  IF g.player.health <= 0 THEN g
  ELSE
    LET a == CollideFrom([g |-> g, hadHit |-> FALSE, registeredNearMiss |-> FALSE],
                         g.hazards, 1)
    IN IF a.hadHit THEN [a.g EXCEPT !.nearMissStreak = 0]
       ELSE IF a.registeredNearMiss
       THEN [a.g EXCEPT !.nearMissStreak = Min(@ + 1, 99)]
       ELSE a.g

\* Whether _updateHazards(dt) calls _spawnHazard().
SpawnerRuns(g, dt) == g.state = "playing" /\ LeqZero(MinusInt(g.spawnTimer, dt))

\* update(dt, input) of the survival variant
SurvUpdate(g, dt, input, rnd) ==
  LET g1 == [g EXCEPT !.time = @ + dt, !.pulses = UpdatePulses(@, dt)] IN
  IF g1.state # "playing" THEN g1
  ELSE
    LET g2 == [g1 EXCEPT !.timeAlive = @ + dt] IN
    IF ~Has(g2, "hazards") THEN g2
    ELSE
      LET g3 == [g2 EXCEPT !.spawnInterval =
                              SpawnIntervalAt(g2.timeAlive, g2.config.hazards)]
      IN
      IF input.dash /\ g3.player.dashCooldown <= 0 /\ ~Has(g3, "player")
      THEN [g3 EXCEPT !.player.invulnTime =
                         IF @ > 0 THEN Max(0, @ - dt) ELSE @]
      ELSE
        LET g4 == UpdatePlayer(g3, dt, input) IN
        IF SpawnerRuns(g4, dt) /\ ~Has(g4, "difficulty")
        THEN [g4 EXCEPT !.spawnTimer = MinusInt(@, dt)]
        ELSE SurvCheckCollisions(UpdateHazards(g4, dt, rnd))

-----------------------------------------------------------------------------
(* ARPG variant (Everlight Crossroads).  Lengths are in tenths of a pixel  *)
(* (the contact radius mob.radius + 0.8 * player.radius is 28.8 px),       *)
(* experience in whole points.  Entities are drawn on the horizontal line  *)
(* through the player and the player moves along it, so that every         *)
(* direction (dx / dist, dy / dist) is a unit axis vector.                 *)

\* window.innerWidth / innerHeight and the canvas of the ARPG page (pixels).
Window == [innerWidth |-> 480, innerHeight |-> 400]

ArpgCanvas == [clientWidth |-> 480, clientHeight |-> 400]

Sign(a) == IF a > 0 THEN 1 ELSE IF a < 0 THEN -1 ELSE 0

\* Math.hypot(dx, dy) <= r and < r.
DistLeq(dx, dy, r) == r >= 0 /\ dx * dx + dy * dy <= r * r

DistLt(dx, dy, r) == r > 0 /\ dx * dx + dy * dy < r * r

\* (dx / mag, dy / mag) with mag = Math.hypot(dx, dy) || 1, for dx or dy 0.
Unit(dx, dy) == [x |-> Sign(dx), y |-> Sign(dy)]

\* Math.cos and Math.sin of an angle given in quarter turns.
Cos(q) == CASE q = 0 -> 1 [] q = 2 -> -1 [] OTHER -> 0

Sin(q) == CASE q = 1 -> 1 [] q = 3 -> -1 [] OTHER -> 0

\* _getStaticZoneRect(), in tenths of a pixel
GetStaticZoneRect ==
  LET pad == 60
      width == IF ArpgCanvas.clientWidth = 0 THEN 960 ELSE ArpgCanvas.clientWidth
      height == IF ArpgCanvas.clientHeight = 0 THEN 540 ELSE ArpgCanvas.clientHeight
  IN [minX |-> 10 * pad, maxX |-> 10 * (width - pad),
      minY |-> 10 * (pad + 40), maxY |-> 10 * (height - pad),
      width |-> 10 * (width - pad - pad),
      height |-> 10 * (height - pad - (pad + 40))]

\* this.zoneBounds of the constructor, in tenths of a pixel
ZoneBounds ==
  LET padding == 40 IN
  [minX |-> 10 * padding,
   maxX |-> 10 * ((IF Window.innerWidth = 0 THEN 960 ELSE Window.innerWidth) - padding),
   minY |-> 10 * (padding + 40),
   maxY |-> 10 * ((IF Window.innerHeight = 0 THEN 540 ELSE Window.innerHeight) - padding)]

\* new RactrMob(x, y, opts) with every option given
RactrMob(x, y, opts) ==
  [x |-> x, y |-> y, vx |-> 0, vy |-> 0,
   radius |-> opts.radius, maxHealth |-> opts.maxHealth,
   health |-> opts.maxHealth, moveSpeed |-> opts.moveSpeed,
   level |-> opts.level, baseXp |-> opts.baseXp, behavior |-> "chaser",
   wanderAngle |-> opts.wanderAngle, wanderTimer |-> 0,
   aggroRange |-> opts.aggroRange, attackRange |-> 320,
   attackCooldown |-> 0, attackCooldownMax |-> 130,
   contactDamage |-> opts.contactDamage, alive |-> TRUE, hitFlash |-> 0]

\* RactrMob.takeDamage(amount)
TakeDamage(m, amount) ==
  [m EXCEPT !.health = @ - amount, !.hitFlash = 18,
            !.alive = IF m.health - amount <= 0 THEN FALSE ELSE @]

\* RactrMob._wander(dt); w is what Math.random() yields for the new timer
\* and angle.
Wander(m, dt, w) ==
  LET timer == m.wanderTimer - dt
      redraw == timer <= 0
      angle == IF redraw THEN w.angle ELSE m.wanderAngle
      s == m.moveSpeed \div 2
  IN [m EXCEPT !.wanderTimer = IF redraw THEN w.timer ELSE timer,
               !.wanderAngle = angle,
               !.vx = Cos(angle) * s, !.vy = Sin(angle) * s]

\* RactrMob.update(dt, player, zoneBounds)
MobUpdate(m, dt, player, rect, w) ==
  IF ~m.alive THEN m
  ELSE
    LET m0 == [m EXCEPT !.hitFlash = IF @ > 0 THEN Max(0, @ - dt) ELSE @,
                        !.attackCooldown = IF @ > 0 THEN Max(0, @ - dt) ELSE @]
        dx == player.x - m.x
        dy == player.y - m.y
        u == Unit(dx, dy)
        m1 == IF m.behavior = "chaser" /\ DistLt(dx, dy, m.aggroRange)
              THEN [m0 EXCEPT !.vx = u.x * m.moveSpeed, !.vy = u.y * m.moveSpeed]
              ELSE Wander(m0, dt, w)
        x0 == m1.x + (m1.vx * dt) \div 10
        y0 == m1.y + (m1.vy * dt) \div 10
        x1 == IF x0 < rect.minX + m.radius THEN rect.minX + m.radius ELSE x0
        x2 == IF x1 > rect.maxX - m.radius THEN rect.maxX - m.radius ELSE x1
        y1 == IF y0 < rect.minY + m.radius THEN rect.minY + m.radius ELSE y0
        y2 == IF y1 > rect.maxY - m.radius THEN rect.maxY - m.radius ELSE y1
    IN [m1 EXCEPT !.x = x2, !.y = y2]

\* new RactrProjectile(x, y, vx, vy, opts)
RactrProjectile(x, y, vx, vy, opts) ==
  [x |-> x, y |-> y, vx |-> vx, vy |-> vy, radius |-> opts.radius,
   life |-> opts.life, maxLife |-> opts.life, damage |-> opts.damage]

\* RactrProjectile.update(dt)
ProjectileUpdate(pr, dt) ==
  [pr EXCEPT !.life = @ - dt, !.x = @ + (pr.vx * dt) \div 10,
             !.y = @ + (pr.vy * dt) \div 10]

\* The player object of the ARPG constructor
ArpgPlayer ==
  [x |-> 0, y |-> 0, vx |-> 0, vy |-> 0, radius |-> 160,
   baseSpeed |-> 185, dashSpeed |-> 360, dashCooldown |-> 0,
   dashCooldownMax |-> 55, invulnTime |-> 0,
   maxHealth |-> 120, health |-> 120, maxMana |-> 60, mana |-> 60,
   level |-> 1, xp |-> 0, xpToNext |-> 130,
   strength |-> 10, agility |-> 12, intelligence |-> 9,
   attackPower |-> 14, defense |-> 3, critChance |-> 60, gold |-> 0,
   facingAngle |-> 0, attackCooldown |-> 0, attackCooldownMax |-> 45]

\* _spawnInitialMobs(): the nine mobs for one outcome of Math.random(),
\* lay[i] giving mob i its place, level jitter, health roll and radius.
SpawnInitialMobs(lay) ==
  LET defLevel == <<1, 2, 2>>
      Mob(i) ==
        LET level == defLevel[((i - 1) % 3) + 1] + lay[i].levelJitter
        IN RactrMob(lay[i].x, lay[i].y,
                    [radius |-> lay[i].radius,
                     maxHealth |-> 30 + level * 18 + lay[i].hpRoll,
                     moveSpeed |-> 50 + level * 12, level |-> level,
                     baseXp |-> 16 + level * 8, wanderAngle |-> lay[i].wanderAngle,
                     aggroRange |-> 10 * (260 + level * 20),
                     contactDamage |-> 12 + level * 4])
  IN [i \in 1..9 |-> Mob(i)]

\* Whether lay is a possible outcome of Math.random() in _spawnInitialMobs().
IsLayout(lay) ==
  LET b == GetStaticZoneRect IN
  \A i \in 1..9 :
    /\ lay[i].x >= b.minX + 800 /\ lay[i].x < b.minX + 800 + (b.width - 1600)
    /\ lay[i].y >= b.minY + 800 /\ lay[i].y < b.minY + 800 + (b.height - 1600)
    /\ lay[i].levelJitter \in {0, 1}
    /\ lay[i].hpRoll \in 0..11
    /\ lay[i].radius >= 160 /\ lay[i].radius < 200
    /\ lay[i].wanderAngle \in 0..3

\* _resetRunState()
ResetRunState(g, lay) ==
  LET bounds == ZoneBounds
      centerX == (bounds.minX + bounds.maxX) \div 2
      centerY == (bounds.minY + bounds.maxY) \div 2 + 300
  IN [g EXCEPT
        !.player = [@ EXCEPT !.x = centerX, !.y = centerY, !.vx = 0, !.vy = 0,
                             !.health = g.player.maxHealth,
                             !.mana = g.player.maxMana,
                             !.invulnTime = 0, !.dashCooldown = 0,
                             !.attackCooldown = 0],
        !.mobs = SpawnInitialMobs(lay),
        !.projectiles = <<>>,
        !.pulses = <<>>,
        !.runTime = 0,
        !.time = 0,
        !.lastHitTime = -99900,
        !.lastKillTime = -99900,
        !.pendingAttack = FALSE]

\* new RactrGame(engine) of the ARPG variant
ArpgGame(lay) ==
  ResetRunState(
    [time |-> 0, state |-> "intro", bestTime |-> 0, runTime |-> 0,
     player |-> ArpgPlayer, mobs |-> <<>>, projectiles |-> <<>>,
     pulses |-> <<>>, lastHitTime |-> -99900, lastKillTime |-> -99900,
     pendingAttack |-> FALSE], lay)

\* _startRun()
StartRun(g, lay) == ResetRunState([g EXCEPT !.state = "playing"], lay)

\* _endRun()
EndRun(g) ==
  [g EXCEPT !.state = "dead", !.bestTime = Max(g.bestTime, g.runTime)]

\* Pow128[n + 1] is Math.pow(n, 1.28) in units of 10^-5, for n = 0 .. 20.
Pow128 ==
  <<0, 100000, 242838, 408051, 589707, 784660, 990908, 1207050, 1432040,
    1665062, 1905460, 2152695, 2406312, 2665922, 2931189, 3201819, 3477551,
    3758154, 4043419, 4333158, 4627201>>

\* _grantXp(amount) of the ARPG variant: the level-up loop.
RECURSIVE ArpgLevelUpLoop(_)
ArpgLevelUpLoop(g) ==
  LET p == g.player IN
  IF ~(p.xp >= p.xpToNext) THEN g
  ELSE
    LET hpGain == 14
        manaGain == 6
        strGain == 2
        agiGain == 2
        intGain == 1
        maxHealth == p.maxHealth + hpGain + Round(strGain * 13, 10)
        maxMana == p.maxMana + manaGain + Round(intGain * 11, 10)
    IN ArpgLevelUpLoop(
         [g EXCEPT
            !.player =
              [p EXCEPT !.xp = @ - p.xpToNext,
                        !.level = @ + 1,
                        !.strength = @ + strGain,
                        !.agility = @ + agiGain,
                        !.intelligence = @ + intGain,
                        !.maxHealth = maxHealth,
                        !.maxMana = maxMana,
                        !.attackPower = @ + 3 + Round(strGain * 7, 10),
                        !.defense = @ + 1 + Round(strGain * 3, 10),
                        !.critChance = @ + agiGain * 3,
                        !.health = maxHealth,
                        !.mana = maxMana,
                        !.xpToNext = (130 * Pow128[p.level + 2]) \div 100000 + 60],
            !.pulses = RegisterPulse(@, p.x, p.y, "rgba(120, 220, 255, 0.95)",
                                     p.radius + 600, 70, 50)])

\* A _grantXp() whose level-ups raise the maxima and keep the health.
ArpgGrantXpKeepsHealth(g, amount) ==
  LET h == ArpgLevelUpLoop([g EXCEPT !.player.xp = @ + amount])
  IN [h EXCEPT !.player.health = g.player.health]

\* _grantXp(amount) of the ARPG variant
ArpgGrantXp(g, amount) ==
  ArpgLevelUpLoop([g EXCEPT !.player.xp = @ + amount])

\* _performAttack()
PerformAttack(g) ==
  LET p == g.player
      DSq(k) == (g.mobs[k].x - p.x) * (g.mobs[k].x - p.x)
                  + (g.mobs[k].y - p.y) * (g.mobs[k].y - p.y)
      alive == {k \in 1..Len(g.mobs) : g.mobs[k].alive}
      nearest == {k \in alive :
                    \A j \in alive : DSq(k) < DSq(j) \/ (DSq(k) = DSq(j) /\ k <= j)}
      baseDamage == p.attackPower + Round(4 * p.strength + 2 * p.agility, 10)
      aimed == nearest # {} /\ (\A k \in nearest : DSq(k) > 10 * 10)
      dir == IF aimed
             THEN LET t == g.mobs[CHOOSE k \in nearest : TRUE]
                  IN Unit(t.x - p.x, t.y - p.y)
             ELSE [x |-> Cos(p.facingAngle), y |-> Sin(p.facingAngle)]
      proj == RactrProjectile(p.x + dir.x * (p.radius + 40),
                              p.y + dir.y * (p.radius + 40),
                              dir.x * 520, dir.y * 520,
                              [damage |-> baseDamage, radius |-> 70, life |-> 60])
  IN [g EXCEPT
        !.projectiles = Append(@, proj),
        !.pulses = RegisterPulse(@, p.x + dir.x * (p.radius + 60),
                                 p.y + dir.y * (p.radius + 60),
                                 "rgba(255, 255, 200, 0.9)",
                                 p.radius + 200, 20, 25)]

\* An update of the player that attacks on every request, whatever the
\* cooldown.
ArpgUpdatePlayerAttackAtWill(g, dt, input) ==
  LET p == g.player
      invulnTime == IF p.invulnTime > 0 THEN Max(0, p.invulnTime - dt)
                    ELSE p.invulnTime
      cooldown == IF p.dashCooldown > 0 THEN Max(0, p.dashCooldown - dt)
                  ELSE p.dashCooldown
      attackCooldown == IF p.attackCooldown > 0 THEN Max(0, p.attackCooldown - dt)
                        ELSE p.attackCooldown
      moveX == (IF input.right THEN 1 ELSE 0) - (IF input.left THEN 1 ELSE 0)
      moveY == (IF input.down THEN 1 ELSE 0) - (IF input.up THEN 1 ELSE 0)
      dashing == input.dash /\ cooldown <= 0
      speed == IF dashing THEN p.dashSpeed ELSE p.baseSpeed
      vx == moveX * speed
      vy == moveY * speed
      x0 == p.x + (vx * dt) \div 10
      y0 == p.y + (vy * dt) \div 10
      facing == IF moveX # 0 \/ moveY # 0
                THEN (CASE moveX = 1 -> 0 [] moveY = 1 -> 1 [] moveX = -1 -> 2
                        [] OTHER -> 3)
                ELSE p.facingAngle
      rect == GetStaticZoneRect
      x1 == IF x0 < rect.minX + p.radius THEN rect.minX + p.radius ELSE x0
      x2 == IF x1 > rect.maxX - p.radius THEN rect.maxX - p.radius ELSE x1
      y1 == IF y0 < rect.minY + p.radius THEN rect.minY + p.radius ELSE y0
      y2 == IF y1 > rect.maxY - p.radius THEN rect.maxY - p.radius ELSE y1
      g1 == [g EXCEPT
               !.player = [p EXCEPT !.invulnTime = invulnTime,
                                    !.dashCooldown = IF dashing THEN p.dashCooldownMax
                                                     ELSE cooldown,
                                    !.attackCooldown = attackCooldown,
                                    !.vx = vx, !.vy = vy, !.x = x2, !.y = y2,
                                    !.facingAngle = facing],
               !.pulses = IF dashing
                          THEN RegisterPulse(@, p.x, p.y, "rgba(150, 230, 255, 0.9)",
                                             p.radius + 340, 40, 40)
                          ELSE @]
      g2 == IF g.pendingAttack
            THEN [PerformAttack(g1) EXCEPT
                    !.player.attackCooldown = p.attackCooldownMax]
            ELSE g1
  IN [g2 EXCEPT !.pendingAttack = FALSE]

\* _updatePlayer(dt, input) of the ARPG variant
ArpgUpdatePlayer(g, dt, input) ==
  LET p == g.player
      invulnTime == IF p.invulnTime > 0 THEN Max(0, p.invulnTime - dt)
                    ELSE p.invulnTime
      cooldown == IF p.dashCooldown > 0 THEN Max(0, p.dashCooldown - dt)
                  ELSE p.dashCooldown
      attackCooldown == IF p.attackCooldown > 0 THEN Max(0, p.attackCooldown - dt)
                        ELSE p.attackCooldown
      moveX == (IF input.right THEN 1 ELSE 0) - (IF input.left THEN 1 ELSE 0)
      moveY == (IF input.down THEN 1 ELSE 0) - (IF input.up THEN 1 ELSE 0)
      dashing == input.dash /\ cooldown <= 0
      speed == IF dashing THEN p.dashSpeed ELSE p.baseSpeed
      vx == moveX * speed
      vy == moveY * speed
      x0 == p.x + (vx * dt) \div 10
      y0 == p.y + (vy * dt) \div 10
      facing == IF moveX # 0 \/ moveY # 0
                THEN (CASE moveX = 1 -> 0 [] moveY = 1 -> 1 [] moveX = -1 -> 2
                        [] OTHER -> 3)
                ELSE p.facingAngle
      rect == GetStaticZoneRect
      x1 == IF x0 < rect.minX + p.radius THEN rect.minX + p.radius ELSE x0
      x2 == IF x1 > rect.maxX - p.radius THEN rect.maxX - p.radius ELSE x1
      y1 == IF y0 < rect.minY + p.radius THEN rect.minY + p.radius ELSE y0
      y2 == IF y1 > rect.maxY - p.radius THEN rect.maxY - p.radius ELSE y1
      g1 == [g EXCEPT
               !.player = [p EXCEPT !.invulnTime = invulnTime,
                                    !.dashCooldown = IF dashing THEN p.dashCooldownMax
                                                     ELSE cooldown,
                                    !.attackCooldown = attackCooldown,
                                    !.vx = vx, !.vy = vy, !.x = x2, !.y = y2,
                                    !.facingAngle = facing],
               !.pulses = IF dashing
                          THEN RegisterPulse(@, p.x, p.y, "rgba(150, 230, 255, 0.9)",
                                             p.radius + 340, 40, 40)
                          ELSE @]
      g2 == IF g.pendingAttack /\ attackCooldown <= 0
            THEN [PerformAttack(g1) EXCEPT
                    !.player.attackCooldown = p.attackCooldownMax]
            ELSE g1
  IN [g2 EXCEPT !.pendingAttack = FALSE]

\* An update of the mobs that culls none.
UpdateMobsKeepDead(g, dt, w) ==
  [g EXCEPT !.mobs = [k \in 1..Len(g.mobs) |->
                        MobUpdate(g.mobs[k], dt, g.player, GetStaticZoneRect, w)]]

\* _updateMobs(dt)
UpdateMobs(g, dt, w) ==
  LET rect == GetStaticZoneRect
      updated == [k \in 1..Len(g.mobs) |->
                    MobUpdate(g.mobs[k], dt, g.player, rect, w)]
  IN [g EXCEPT !.mobs = SelectSeq(updated, LAMBDA m : m.alive \/ m.health > 0)]

\* _updateProjectiles(dt)
UpdateProjectiles(g, dt) ==
  LET rect == GetStaticZoneRect
      updated == [k \in 1..Len(g.projectiles) |->
                    ProjectileUpdate(g.projectiles[k], dt)]
      Kept(pr) == /\ pr.life > 0
                  /\ ~(pr.x < rect.minX - 400 \/ pr.x > rect.maxX + 400
                       \/ pr.y < rect.minY - 400 \/ pr.y > rect.maxY + 400)
  IN [g EXCEPT !.projectiles = SelectSeq(updated, Kept)]

\* Damage that does not stop at zero health.
DealDamageUnclamped(g, amount) ==
  LET health == g.player.health - Max(1, (Max(0, 2 * amount - g.player.defense) + 1) \div 2)
  IN IF health <= 0 THEN EndRun([g EXCEPT !.player.health = health])
     ELSE [g EXCEPT !.player.health = health]

\* Damage that mitigation can bring to nothing.
DealDamageNoFloor(g, amount) ==
  LET health == Max(0, g.player.health
                         - (Max(0, 2 * amount - g.player.defense) + 1) \div 2)
      g1 == [g EXCEPT !.player.health = health, !.lastHitTime = g.time]
  IN IF health <= 0 THEN EndRun(g1) ELSE g1

\* _dealDamageToPlayer(amount)
DealDamageToPlayer(g, amount) ==
  LET p == g.player
      halves == Max(0, 2 * amount - p.defense)
      final == Max(1, (halves + 1) \div 2)
      health == Max(0, p.health - final)
      g1 == [g EXCEPT
               !.player.health = health,
               !.pulses = RegisterPulse(@, p.x, p.y, "rgba(255, 60, 90, 0.9)",
                                        p.radius + 380, 45, 40),
               !.lastHitTime = g.time]
  IN IF health <= 0 THEN EndRun(g1) ELSE g1

\* _onMobKilled(mob); roll is what Math.random() yields for the xp and gold.
OnMobKilled(g, mob, roll) ==
  LET g1 == ArpgGrantXp([g EXCEPT !.lastKillTime = g.time], mob.baseXp + roll.xp)
  IN [g1 EXCEPT
        !.pulses = RegisterPulse(@, mob.x, mob.y, "rgba(170, 255, 210, 0.9)",
                                 mob.radius + 400, 55, 35),
        !.player.gold = @ + 1 + roll.gold]

\* A contact radius with the whole of the player's radius, times 10.
FullReach(mob, p) == 10 * mob.radius + 10 * p.radius

\* r = mob.radius + p.radius * 0.8 of _handleCollisions(), times 10.
ContactReach(mob, p) == 10 * mob.radius + 8 * p.radius

\* The mob -> player contact loop of _handleCollisions(), from mob k on.
RECURSIVE ContactFrom(_, _)
ContactFrom(g, k) ==
  IF k > Len(g.mobs) THEN g
  ELSE
    LET mob == g.mobs[k]
        p == g.player
        \* dist <= r, both sides times 10
        touching == DistLeq(10 * (mob.x - p.x), 10 * (mob.y - p.y),
                            ContactReach(mob, p))
    IN IF mob.alive /\ touching /\ p.invulnTime <= 0
       THEN LET g1 == DealDamageToPlayer(g, mob.contactDamage)
            IN ContactFrom([g1 EXCEPT !.player.invulnTime = 70,
                                      !.lastHitTime = g.time], k + 1)
       ELSE ContactFrom(g, k + 1)

\* A projectile that flies on after its hit.
KeepFlying(proj) == proj

\* proj.life = 0 of _handleCollisions()
Spend(proj) == [proj EXCEPT !.life = 0]

\* The projectile -> mob loop of _handleCollisions(), from projectile j on.
RECURSIVE StrikeFrom(_, _, _)
StrikeFrom(g, j, roll) ==
  IF j > Len(g.projectiles) THEN g
  ELSE
    LET proj == g.projectiles[j]
        struck == {k \in 1..Len(g.mobs) :
                     /\ g.mobs[k].alive
                     /\ DistLeq(g.mobs[k].x - proj.x, g.mobs[k].y - proj.y,
                                g.mobs[k].radius + proj.radius)}
    IN IF proj.life > 0 /\ struck # {}
       THEN LET k == CHOOSE a \in struck : \A b \in struck : a <= b
                mob == TakeDamage(g.mobs[k], proj.damage)
                g1 == [g EXCEPT !.mobs[k] = mob, !.projectiles[j] = Spend(proj)]
            IN StrikeFrom(IF ~mob.alive THEN OnMobKilled(g1, mob, roll) ELSE g1,
                          j + 1, roll)
       ELSE StrikeFrom(g, j + 1, roll)

\* _handleCollisions()
HandleCollisions(g, roll) ==
  IF g.player.health <= 0 THEN g
  ELSE StrikeFrom(ContactFrom(g, 1), 1, roll)

\* A background spawner whose cap grows with the run time without end.
MaybeSpawnUncapped(g, roll) ==
  LET maxMobs == 9 + g.runTime \div 2000
      level == 1 + g.runTime \div 4500
  IN IF Len(g.mobs) >= maxMobs \/ ~roll.spawn THEN g
     ELSE [g EXCEPT !.mobs =
             Append(@, RactrMob(roll.x, roll.y,
                                [radius |-> 160,
                                 maxHealth |-> 40 + level * 20,
                                 moveSpeed |-> 60 + level * 10,
                                 level |-> level,
                                 baseXp |-> 20 + level * 10,
                                 wanderAngle |-> roll.angle,
                                 aggroRange |-> 10 * (280 + level * 30),
                                 contactDamage |-> 12 + level * 5]))]

\* _maybeSpawnExtraMobs(dt); roll is what Math.random() yields for the
\* spawn chance (roll.spawn: the draw was <= 0.015) and the position.
MaybeSpawnExtraMobs(g, roll) ==
  LET maxBase == 9
      extra == g.runTime \div 2000
      maxMobs == Min(20, maxBase + extra)
      level == 1 + g.runTime \div 4500
  IN IF Len(g.mobs) >= maxMobs \/ ~roll.spawn THEN g
     ELSE [g EXCEPT !.mobs =
             Append(@, RactrMob(roll.x, roll.y,
                                [radius |-> 160,
                                 maxHealth |-> 40 + level * 20,
                                 moveSpeed |-> 60 + level * 10,
                                 level |-> level,
                                 baseXp |-> 20 + level * 10,
                                 wanderAngle |-> roll.angle,
                                 aggroRange |-> 10 * (280 + level * 30),
                                 contactDamage |-> 12 + level * 5]))]

\* Whether roll is a possible outcome of Math.random() during one update().
IsRoll(roll) ==
  LET rect == GetStaticZoneRect IN
  /\ roll.xp \in 0..6
  /\ roll.gold \in 0..3
  /\ roll.spawn \in BOOLEAN
  /\ roll.x >= rect.minX + 600 /\ roll.x < rect.minX + 600 + (rect.width - 1200)
  /\ roll.y >= rect.minY + 600 /\ roll.y < rect.minY + 600 + (rect.height - 1200)
  /\ roll.angle \in 0..3
  /\ roll.timer >= 100 /\ roll.timer < 350

\* update(dt, input) of the ARPG variant
ArpgUpdate(g, dt, input, roll) ==
  LET g1 == [g EXCEPT !.time = @ + dt] IN
  IF g1.state = "intro" \/ g1.state = "dead"
  THEN [g1 EXCEPT !.pulses = UpdatePulses(@, dt)]
  ELSE
    LET g2 == [g1 EXCEPT !.runTime = @ + dt, !.pulses = UpdatePulses(@, dt)]
        g3 == ArpgUpdatePlayer(g2, dt, input)
        g4 == UpdateMobs(g3, dt, [angle |-> roll.angle, timer |-> roll.timer])
        g5 == UpdateProjectiles(g4, dt)
        g6 == HandleCollisions(g5, roll)
    IN MaybeSpawnExtraMobs(g6, roll)

-----------------------------------------------------------------------------
(* Town variant: the progression of its player.  Experience is in 1/300 of *)
(* a point (exploration grants dt / 3 points for dt seconds).              *)

\* Pow125[n + 1] is Math.pow(n, 1.25) in units of 10^-5, for n = 0 .. 20.
Pow125 ==
  <<0, 100000, 237841, 394822, 565685, 747674, 939050, 1138603, 1345434,
    1558845, 1778279, 2003276, 2233451, 2468477, 2708070, 2951984, 3200000,
    3451923, 3707580, 3966815, 4229485>>

\* _pushChatSystem(text)
PushChatSystem(chatLog, text) ==
  LET pushed == Append(chatLog, [system |-> TRUE, text |-> text])
  IN IF Len(pushed) > 10 THEN Tail(pushed) ELSE pushed

\* The player and chat log of the town constructor.
TownGame ==
  [state |-> "intro",
   player |-> [level |-> 1, xp |-> 0, xpToNext |-> 300 * 120,
               maxHealth |-> 120, health |-> 120, maxMana |-> 60, mana |-> 60,
               strength |-> 10, agility |-> 11, intelligence |-> 9,
               attackPower |-> 15, defense |-> 3, critChance |-> 50,
               gold |-> 12],
   chatLog |-> <<[system |-> TRUE, text |-> <<"Welcome to Everlight Crossroads.">>],
                 [system |-> TRUE, text |-> <<"Press Space or Enter to stand up.">>]>>]

\* _grantXp(amount) of the town variant: the level-up loop.
RECURSIVE TownLevelUpLoop(_)
TownLevelUpLoop(g) ==
  LET p == g.player IN
  IF ~(p.xp >= p.xpToNext) THEN g
  ELSE TownLevelUpLoop(
         [g EXCEPT
            !.player =
              [p EXCEPT !.xp = @ - p.xpToNext,
                        !.level = @ + 1,
                        !.maxHealth = @ + 10,
                        !.maxMana = @ + 4,
                        !.strength = @ + 1,
                        !.agility = @ + 1,
                        !.intelligence = @ + 1,
                        !.attackPower = @ + 2,
                        !.defense = @ + 1,
                        !.critChance = @ + 3,
                        !.health = p.maxHealth + 10,
                        !.mana = p.maxMana + 4,
                        !.xpToNext =
                          300 * ((120 * Pow125[p.level + 2]) \div 100000 + 40)],
            !.chatLog = PushChatSystem(@, <<"You have gained a level!", p.level + 1>>)])

\* _grantXp(amount) of the town variant
TownGrantXp(g, amount) ==
  TownLevelUpLoop([g EXCEPT !.player.xp = @ + amount])

-----------------------------------------------------------------------------
(* Inputs of the model and their bounds                                    *)

\* update() calls per behaviour.
MaxTicks == 6

\* update() calls per behaviour of the ARPG's brawl and skirmish.
ArpgTicks == 9

\* Highest player level a behaviour reaches (the power tables end at 20).
MaxLevel == 12

\* engine._inputSnapshot(): the keys held during a frame.
Input(l, r, u, d, dash) ==
  [left |-> l, right |-> r, up |-> u, down |-> d, dash |-> dash]

NoKeys == Input(FALSE, FALSE, FALSE, FALSE, FALSE)

\* The builds and, for each, how the animation loop paces update(): dt per
\* frame in centiseconds and the key sets held (at most one axis at a time).
\* "frames" is a steady display with the player standing still; "stalls" a
\* tab that stalls for seconds between frames (dt 0: two callbacks with one
\* timestamp); "keys" a player who walks, dashes and holds opposing keys;
\* "brawl" the ARPG player standing in a pack of mobs at one or two frames
\* a second;
\* "skirmish" the ARPG player backing away from the pack; "lulls" the ARPG
\* in a tab that stalls for 20 s.
Scenes ==
  { <<"orchestrator", "frames">>, <<"orchestrator", "stalls">>,
    <<"orchestrator", "keys">>,
    <<"survival", "frames">>, <<"survival", "stalls">>,
    <<"arpg", "brawl">>, <<"arpg", "skirmish">>, <<"arpg", "lulls">> }

DtOf(c) ==
  CASE c = "frames" -> {20, 25}
    [] c = "stalls" -> {0, 1000, 3000}
    [] c = "brawl" -> {50, 100}
    [] c = "lulls" -> {0, 2000}
    [] c = "skirmish" -> {20}
    [] OTHER -> {0, 20}

InputsOf(c) ==
  CASE c = "keys" -> {NoKeys, Input(TRUE, FALSE, FALSE, FALSE, FALSE),
                      Input(TRUE, TRUE, FALSE, FALSE, TRUE),
                      Input(FALSE, FALSE, FALSE, TRUE, TRUE)}
    [] c = "skirmish" -> {NoKeys, Input(TRUE, FALSE, FALSE, FALSE, TRUE)}
    [] OTHER -> {NoKeys}

\* update() calls per behaviour of a scene; the scenes with the most
\* choices per frame are followed one frame less.
TicksOf(v, c) ==
  IF v = "arpg" /\ c \in {"brawl", "skirmish"} THEN ArpgTicks
  ELSE IF c \in {"keys", "stalls"} THEN MaxTicks - 1
  ELSE MaxTicks

\* The least multiple of 20 that is >= n/d.
CeilTo20(n, d) == 20 * Ceil(n, 20 * d)

\* Outcomes of Math.random() drawn for a spawned hazard, all from the top
\* edge: above the middle of the canvas at the least speed and radius, the
\* same faster and larger, and 28 px aside of the middle.
SpawnOutcomes(g, c) ==
  LET cs == CurrentHazardSpeed(g)
      sm == SizeMultiplier(g)
      slow == CeilTo20(cs.n, cs.d)
      small == Ceil(8 * sm.n, sm.d)
      drawn == IF c = "stalls"
               THEN { [edge |-> 0, along |-> CanvasW(g) \div 2, speed |-> slow,
                       drift |-> 0, radius |-> small],
                      [edge |-> 3, along |-> CanvasH(g) \div 2, speed |-> slow + 60,
                       drift |-> -20, radius |-> small + 4] }
               ELSE IF c = "keys"
               THEN { [edge |-> 0, along |-> CanvasW(g) \div 2, speed |-> slow + 60,
                       drift |-> 0, radius |-> small] }
               ELSE { [edge |-> 0, along |-> CanvasW(g) \div 2, speed |-> slow,
                       drift |-> 0, radius |-> small],
                      [edge |-> 0, along |-> CanvasW(g) \div 2, speed |-> slow + 60,
                       drift |-> 0, radius |-> small + 4],
                      [edge |-> 0, along |-> CanvasW(g) \div 2 + 28, speed |-> slow + 60,
                       drift |-> 0, radius |-> small] }
  IN { o \in drawn : IsSpawnOutcome(g, o) }

\* The configuration has the three groups update() reads.
WholeConfig(g) == Has(g, "hazards") /\ Has(g, "difficulty") /\ Has(g, "player")

\* The number of hazards the survival update(dt, .) spawns from g.
SurvSpawnsDue(g, dt) == IF WholeConfig(g) THEN SpawnsDue(g, dt) ELSE 0

\* Outcomes of Math.random() drawn for _spawnInitialMobs(): the nine mobs on
\* the horizontal line through the player's starting place.  In the pack the
\* second mob stands on the player and the others close by, each a level
\* above its definition; in the line all stand together 99 px to the right;
\* in the ring the level-1 mobs stand 92 px and the level-2 mobs 30 px to the
\* right, so that one second of chasing brings the former to 30 px from the
\* player and the latter past the player.
Layouts(c) ==
  LET y == (ZoneBounds.minY + ZoneBounds.maxY) \div 2 + 300
      cx == (ZoneBounds.minX + ZoneBounds.maxX) \div 2
      pack == [i \in 1..9 |->
                 [x |-> cx + 100 * (i - 2), y |-> y, levelJitter |-> 1,
                  hpRoll |-> 0, radius |-> 160, wanderAngle |-> 0]]
      line == [i \in 1..9 |->
                 [x |-> cx + 990, y |-> y, levelJitter |-> 0,
                  hpRoll |-> 0, radius |-> 160, wanderAngle |-> 2]]
      ring == [i \in 1..9 |->
                 [x |-> cx + (IF (i - 1) % 3 = 0 THEN 920 ELSE 300), y |-> y,
                  levelJitter |-> 0, hpRoll |-> 0, radius |-> 160,
                  wanderAngle |-> 0]]
  IN { lay \in (IF c = "skirmish" THEN {line}
                ELSE IF c = "brawl" THEN {pack, ring} ELSE {pack}) :
         IsLayout(lay) }

\* Outcomes of Math.random() drawn for one ARPG update().
Rolls(c) ==
  LET rect == GetStaticZoneRect
      y == (ZoneBounds.minY + ZoneBounds.maxY) \div 2 + 300
      Roll(spawn, xp) == [xp |-> xp, gold |-> xp \div 2, spawn |-> spawn,
                          x |-> rect.minX + 600, y |-> y,
                          angle |-> 0, timer |-> 100]
      drawn == IF c = "lulls" THEN {Roll(TRUE, 0), Roll(FALSE, 0)}
               ELSE IF c = "skirmish" THEN {Roll(FALSE, 0), Roll(FALSE, 6)}
               ELSE {Roll(FALSE, 0)}
  IN { roll \in drawn : IsRoll(roll) }

\* The pulses in flight that a damaging hit registered (_checkCollisions
\* of the survival variants, _dealDamageToPlayer of the ARPG).
HitPulses(pulses) ==
  Cardinality({i \in 1..Len(pulses) :
                 pulses[i].color \in {"rgba(255, 90, 120, 0.9)",
                                      "rgba(255, 60, 90, 0.9)"}})

\* The damaging hits of the update(dt, .) that led from g to h: the hit
\* pulses of h that the pulses of g, decayed by dt, do not account for.
HitsApplied(g, h, dt) == HitPulses(h.pulses) - HitPulses(UpdatePulses(g.pulses, dt))

\* The history of hits is followed for one second past a hit.
HitWatch == 100

\* No run notification sent to the net client yet.
NoNotes == [last |-> "none", timeAlive |-> 0, alternating |-> TRUE]

\* The record of the run notifications after net.notifyRunStarted() or
\* net.notifyRunEnded({player, timeAlive}): the last one sent, and whether
\* every run-started followed a run-ended or nothing and every run-ended a
\* run-started.
RunNoted(notes, kind, timeAlive) ==
  [last |-> kind, timeAlive |-> timeAlive,
   alternating |-> /\ notes.alternating
                   /\ IF kind = "started" THEN notes.last # "started"
                                           ELSE notes.last = "started"]

RECURSIVE NotedTimes(_, _, _, _)
NotedTimes(notes, kind, timeAlive, n) ==
  IF n = 0 THEN notes
  ELSE NotedTimes(RunNoted(notes, kind, timeAlive), kind, timeAlive, n - 1)

\* The net.notifyRunEnded() calls of the update() from g to h: one for every
\* damaging hit of _checkCollisions() that leaves the health at 0.
RunsEnded(g, h, dt) ==
  Cardinality({j \in 1..HitsApplied(g, h, dt) :
                 Max(0, g.player.health - j * g.config.hazards.damagePerHit) <= 0})

\* The simulated time since the last damaging hit, after an update of dt.
SinceHit(since, hits, dt) ==
  IF hits > 0 THEN 0
  ELSE IF since < 0 THEN -1
  ELSE Min(since + dt, HitWatch)

-----------------------------------------------------------------------------
(* The state machine: one build of the game on one page                    *)

Init ==
  /\ \E scene \in Scenes : variant = scene[1] /\ clock = scene[2]
  /\ game \in (CASE variant = "orchestrator" -> {RactrGame}
                 [] variant = "survival" -> {SurvGame}
                 [] OTHER -> {ArpgGame(lay) : lay \in Layouts(clock)})
  /\ fetch = IF variant = "arpg" THEN "none" ELSE "pending"
  /\ ticks = 0
  /\ last = [spawned |-> -1, sinceHit |-> -1, notes |-> NoNotes]

\* A start key that restarts whatever the run state.
StartKeyAnyState ==
  /\ \/ /\ variant = "orchestrator"
        /\ game' = StartGame(game)
     \/ /\ variant = "survival"
        /\ game' = SurvStartGame(game)
     \/ /\ variant = "arpg"
        /\ \E lay \in Layouts(clock) : game' = StartRun(game, lay)
  /\ UNCHANGED <<variant, clock, fetch, ticks, last>>

\* A start key that starts a run, and notifies the start, whatever the run
\* state.
StartKeyRestarts ==
  /\ \/ /\ variant = "orchestrator"
        /\ game' = StartGame(game)
     \/ /\ variant = "survival"
        /\ game' = SurvStartGame(game)
     \/ /\ variant = "arpg"
        /\ \E lay \in Layouts(clock) : game' = StartRun(game, lay)
  /\ last' = IF variant = "orchestrator"
             THEN [last EXCEPT !.notes = RunNoted(@, "started", 0)]
             ELSE last
  /\ UNCHANGED <<variant, clock, fetch, ticks>>

\* The keydown listener of _attachStartInput() / _attachCoreInput() for " "
\* or "Enter"; _startGame() of the orchestrator ends with
\* net.notifyRunStarted().
StartKey ==
  /\ \/ /\ variant = "orchestrator"
        /\ game' = IF game.state = "intro" \/ game.state = "gameover"
                   THEN StartGame(game) ELSE game
     \/ /\ variant = "survival"
        /\ game' = IF game.state = "intro" \/ game.state = "gameover"
                   THEN SurvStartGame(game) ELSE game
     \/ /\ variant = "arpg"
        /\ \E lay \in Layouts(clock) :
             game' = IF game.state = "intro" \/ game.state = "dead"
                     THEN StartRun(game, lay) ELSE game
  /\ last' = IF variant = "orchestrator"
                /\ (game.state = "intro" \/ game.state = "gameover")
             THEN [last EXCEPT !.notes = RunNoted(@, "started", 0)]
             ELSE last
  /\ UNCHANGED <<variant, clock, fetch, ticks>>

\* The keydown listener of _attachAttackInput() for "j".
AttackKey ==
  /\ variant = "arpg"
  /\ game' = [game EXCEPT !.pendingAttack = TRUE]
  /\ UNCHANGED <<variant, clock, fetch, ticks, last>>

\* fetch("engine/ractr_config.json") resolves with the parsed resource.
ConfigLoaded ==
  /\ fetch = "pending"
  /\ \/ /\ variant = "orchestrator"
        /\ \E cfg \in FetchedConfigs : game' = LoadConfig(game, cfg)
     \/ /\ variant = "survival"
        /\ \E cfg \in SurvFetchedConfigs : game' = SurvLoadConfig(game, cfg)
  /\ fetch' = "done"
  /\ UNCHANGED <<variant, clock, ticks, last>>

\* The request fails: the .catch handler of _loadConfig().
ConfigFailed ==
  /\ fetch = "pending"
  /\ \/ /\ variant = "orchestrator"
        /\ game' = ApplyConfigToPlayer(game)
     \/ /\ variant = "survival"
        /\ game' = game
  /\ fetch' = "failed"
  /\ UNCHANGED <<variant, clock, ticks, last>>

\* One animation frame of the orchestrator or the survival variant:
\* engine._loop() calls game.update(dt, input).
Tick ==
  /\ variant \in {"orchestrator", "survival"}
  /\ ticks < TicksOf(variant, clock)
  /\ \E dt \in DtOf(clock), input \in InputsOf(clock) :
       LET n == IF variant = "survival" THEN SurvSpawnsDue(game, dt)
                ELSE SpawnsDue(game, dt)
           at == [game EXCEPT !.timeAlive = @ + dt]
       IN \E rnd \in [1..n -> IF n = 0 THEN {} ELSE SpawnOutcomes(at, clock)] :
            LET g == IF variant = "survival" THEN SurvUpdate(game, dt, input, rnd)
                     ELSE Update(game, dt, input, rnd)
            IN /\ variant = "orchestrator" => g.player.level <= MaxLevel
               /\ game' = g
               /\ last' = [spawned |-> IF SpawnerRuns(game, dt) /\ WholeConfig(game)
                                       THEN n ELSE -1,
                           sinceHit |-> SinceHit(last.sinceHit,
                                                 HitsApplied(game, g, dt), dt),
                           notes |-> IF variant = "orchestrator"
                                     THEN NotedTimes(last.notes, "ended",
                                                     g.timeAlive,
                                                     RunsEnded(game, g, dt))
                                     ELSE last.notes]
  /\ ticks' = ticks + 1
  /\ UNCHANGED <<variant, clock, fetch>>

\* One animation frame of the ARPG variant.
ArpgTick ==
  /\ variant = "arpg"
  /\ ticks < TicksOf(variant, clock)
  /\ \E dt \in DtOf(clock), input \in InputsOf(clock), roll \in Rolls(clock) :
       LET g == ArpgUpdate(game, dt, input, roll) IN
       /\ g.player.level <= MaxLevel
       /\ game' = g
       /\ last' = [spawned |-> -1,
                   sinceHit |-> SinceHit(last.sinceHit,
                                         HitsApplied(game, g, dt), dt),
                   notes |-> last.notes]
  /\ ticks' = ticks + 1
  /\ UNCHANGED <<variant, clock, fetch>>

Next ==
  StartKey \/ AttackKey \/ ConfigLoaded \/ ConfigFailed \/ Tick \/ ArpgTick

Spec == Init /\ [][Next]_vars

-----------------------------------------------------------------------------
(* Sequences of _grantXp calls, on the player each build constructs, and   *)
(* of _dealDamageToPlayer calls on the ARPG player as it levels up         *)

\* _grantXp and _dealDamageToPlayer calls per behaviour.
MaxCalls == 4

\* Highest level the ARPG player reaches in a sequence of calls: its defense
\* is then 33, above twice the least contact damage.
ArpgMaxLevel == 16

\* Amounts granted, in each build's unit of experience: a sliver, a small
\* bump, about one level's worth, several levels' worth; the orchestrator
\* also passes 0, which its guard ignores, and 95 and 10 points; the ARPG
\* also a grant that takes a new player to level 10.
XpAmounts(v) ==
  CASE v = "orchestrator" -> {0, 1, 150, 1000, 2500, 9500, 20000}
    [] v = "arpg" -> {1, 30, 130, 2000, 11000}
    [] OTHER -> {1, 600, 36000, 300000}

\* A configuration whose first threshold is 100 points.
HundredToLevel == [progression |-> [baseXpToLevel |-> 50]]

InitXp ==
  /\ variant \in {"orchestrator", "arpg", "town"}
  /\ clock = "calls"
  /\ game \in (CASE variant = "orchestrator" ->
                      LET built == {ApplyConfigToPlayer(RactrGame)}
                                     \cup {LoadConfig(RactrGame, cfg) :
                                             cfg \in FetchedConfigs
                                                      \cup {HundredToLevel}}
                      IN built \cup {StartGame(g) : g \in built}
                 [] variant = "arpg" -> {ArpgGame(lay) : lay \in Layouts("brawl")}
                 [] OTHER -> {TownGame})
  /\ fetch = "none"
  /\ ticks = 0
  /\ last = [amount |-> 0]

\* _grantXp(amount) of the orchestrator
XpOrchestrator ==
  /\ variant = "orchestrator"
  /\ ticks < MaxCalls
  /\ \E amount \in XpAmounts(variant) :
       LET g == GrantXp(game, amount) IN
       /\ g.player.level <= MaxLevel
       /\ game' = g
       /\ last' = [amount |-> amount]
  /\ ticks' = ticks + 1
  /\ UNCHANGED <<variant, clock, fetch>>

\* _grantXp(amount) of the ARPG variant
XpArpg ==
  /\ variant = "arpg"
  /\ ticks < MaxCalls
  /\ \E amount \in XpAmounts(variant) :
       LET g == ArpgGrantXp(game, amount) IN
       /\ g.player.level <= ArpgMaxLevel
       /\ game' = g
       /\ last' = [amount |-> amount]
  /\ ticks' = ticks + 1
  /\ UNCHANGED <<variant, clock, fetch>>

\* _grantXp(amount) of the town variant
XpTown ==
  /\ variant = "town"
  /\ ticks < MaxCalls
  /\ \E amount \in XpAmounts(variant) :
       LET g == TownGrantXp(game, amount) IN
       /\ g.player.level <= MaxLevel
       /\ game' = g
       /\ last' = [amount |-> amount]
  /\ ticks' = ticks + 1
  /\ UNCHANGED <<variant, clock, fetch>>

\* The contact damage of the mobs _spawnInitialMobs() and
\* _maybeSpawnExtraMobs() make: 12 + 4 * level, 12 + 5 * level.
ContactDamages == {16, 17, 20, 24}

\* _dealDamageToPlayer(amount) of the ARPG variant, as the contact loop of
\* _handleCollisions() calls it for a player with health left.
HitArpg ==
  /\ variant = "arpg"
  /\ ticks < MaxCalls
  /\ game.player.health > 0
  /\ \E amount \in ContactDamages :
       /\ game' = DealDamageToPlayer(game, amount)
       /\ last' = [amount |-> 0, contact |-> amount]
  /\ ticks' = ticks + 1
  /\ UNCHANGED <<variant, clock, fetch>>

\* The damaging branch of _checkCollisions() of the orchestrator, in a run.
HitOrchestrator ==
  /\ variant = "orchestrator"
  /\ ticks < MaxCalls
  /\ game.state = "playing"
  /\ game' = TakeHit(game)
  /\ last' = [amount |-> 0, hit |-> game.config.hazards.damagePerHit]
  /\ ticks' = ticks + 1
  /\ UNCHANGED <<variant, clock, fetch>>

NextXp == XpOrchestrator \/ XpArpg \/ XpTown \/ HitArpg \/ HitOrchestrator

SpecXp == InitXp /\ [][NextXp]_vars

-----------------------------------------------------------------------------
(* The difficulty ramp of a run, over the survival time                    *)

\* Survival time, in centiseconds, up to which the ramp is followed.
RampEnd == 7000

InitRamp ==
  /\ variant \in {"orchestrator", "survival"}
  /\ clock = "ramp"
  /\ game \in (IF variant = "orchestrator"
               THEN {StartGame(LoadConfig(RactrGame, cfg)) : cfg \in FetchedConfigs}
               ELSE {SurvStartGame(SurvGame)}
                      \cup {SurvStartGame(SurvLoadConfig(SurvGame, cfg)) :
                              cfg \in {c \in SurvFetchedConfigs : "hazards" \in DOMAIN c}})
  /\ fetch = "done"
  /\ ticks = 0
  /\ last = [spawned |-> -1, sinceHit |-> -1]

\* The head of update(dt, .) in a run: timeAlive += dt and the spawn interval
\* of the new survival time.
Elapse ==
  /\ game.timeAlive < RampEnd
  /\ \E dt \in {0, 25, 500, 1475} : game' = AdvanceRun(game, dt)
  /\ UNCHANGED <<variant, clock, fetch, ticks, last>>

SpecRamp == InitRamp /\ [][Elapse]_vars

-----------------------------------------------------------------------------
(* RactrNetClient and the page's WebSocket objects.  Times are in          *)
(* centiseconds.  A socket is known by the number of the connection        *)
(* attempt that made it; this.ws is 0 for null.  The WebSocket events      *)
(* follow the WebSocket standard: a connection that fails fires error and  *)
(* then close, a connection that ends fires close, each once.              *)

\* Connection attempts per behaviour.
MaxAttempts == 3

\* HTTP requests and WebSocket frames per behaviour.
MaxTraffic == 3

\* tick() calls are followed up to this value of wsLastAttempt.
MaxIdle == 900

\* dt of the update() calls that reach net.tick(dt, snapshot).
NetDts == {0, 200, 300}

\* The net group of the configuration: no backend, a backend, a WebSocket
\* backend alone, a WebSocket URL the WebSocket constructor rejects.
NetConfigs ==
  { [websocketUrl |-> "", httpBaseUrl |-> ""],
    [websocketUrl |-> "wss://realm", httpBaseUrl |-> "https://realm"],
    [websocketUrl |-> "wss://realm"],
    [websocketUrl |-> "realm", httpBaseUrl |-> ""] }

\* new WebSocket(url) throws a SyntaxError for a URL without ws: or wss:.
Rejected(url) == url = "realm"

\* new RactrNetClient(config); sockets, requests and frames record what the
\* client has asked of the page: the WebSocket objects made (a rejected
\* attempt leaves readyState "none"), the fetch() calls, the send() calls.
RactrNetClient(config) ==
  [websocketUrl |-> IF "websocketUrl" \in DOMAIN config THEN config.websocketUrl ELSE "",
   httpBaseUrl |-> IF "httpBaseUrl" \in DOMAIN config THEN config.httpBaseUrl ELSE "",
   ws |-> 0, wsConnected |-> FALSE, wsLastAttempt |-> 0,
   wsReconnectDelay |-> 500, playerId |-> 0,
   sockets |-> <<>>, requests |-> 0, frames |-> 0]

\* applyConfig(config)
NetApplyConfig(c, config) ==
  [c EXCEPT !.websocketUrl = IF "websocketUrl" \in DOMAIN config
                             THEN config.websocketUrl ELSE @,
            !.httpBaseUrl = IF "httpBaseUrl" \in DOMAIN config
                            THEN config.httpBaseUrl ELSE @]

\* _sendJson(obj)
SendJson(c) ==
  IF c.ws = 0 \/ c.sockets[c.ws].readyState # "open" THEN c
  ELSE [c EXCEPT !.frames = @ + 1]

\* _tryConnect()
TryConnect(c) ==
  LET c1 == [c EXCEPT !.wsLastAttempt = 0] IN
  IF Rejected(c.websocketUrl)
  THEN [c1 EXCEPT !.sockets = Append(@, [readyState |-> "none", failed |-> FALSE]),
                  !.ws = 0, !.wsConnected = FALSE]
  ELSE [c1 EXCEPT !.sockets = Append(@, [readyState |-> "connecting",
                                         failed |-> FALSE]),
                  !.ws = Len(c.sockets) + 1]

\* Whether tick() from c calls _tryConnect().
Reconnects(c, dt) ==
  c.websocketUrl # "" /\ c.ws = 0 /\ c.wsLastAttempt + dt >= c.wsReconnectDelay

\* A tick() that makes a new connection whenever the delay has passed,
\* whether or not the client holds a socket.
NetTickEager(c, dt) ==
  IF c.websocketUrl = "" THEN c
  ELSE
    LET c1 == [c EXCEPT !.wsLastAttempt = @ + dt]
        c2 == IF c1.wsLastAttempt >= c1.wsReconnectDelay
              THEN TryConnect(c1) ELSE c1
    IN IF c2.wsConnected THEN SendJson(c2) ELSE c2

\* tick(dt, context), context the snapshot update() passes (it has a player)
NetTick(c, dt) ==
  IF c.websocketUrl = "" THEN c
  ELSE
    LET c1 == [c EXCEPT !.wsLastAttempt = @ + dt]
        c2 == IF c1.ws = 0 /\ c1.wsLastAttempt >= c1.wsReconnectDelay
              THEN TryConnect(c1) ELSE c1
    IN IF c2.wsConnected THEN SendJson(c2) ELSE c2

\* ws.onopen
OnOpen(c) == SendJson([c EXCEPT !.wsConnected = TRUE])

\* A close handler that keeps the socket.
OnCloseKeepsSocket(c) == [c EXCEPT !.wsConnected = FALSE]

\* ws.onclose
OnClose(c) == [c EXCEPT !.wsConnected = FALSE, !.ws = 0]

\* ws.onerror
OnError(c) == [c EXCEPT !.wsConnected = FALSE]

\* _handleServerMessage(raw); msg is what JSON.parse yields, a record with
\* the field malformed when it throws.
HandleServerMessage(c, msg) ==
  IF "malformed" \in DOMAIN msg THEN c
  ELSE IF "type" \notin DOMAIN msg THEN c
  ELSE IF msg.type = "welcome"
  THEN (IF "playerId" \in DOMAIN msg /\ msg.playerId # 0
        THEN [c EXCEPT !.playerId = msg.playerId] ELSE c)
  ELSE c

\* A notification that posts whatever the configuration.
NotifyAlways(c) == [c EXCEPT !.requests = @ + 1]

\* notifyRunStarted(playerSnapshot), notifyRunEnded(payload) and
\* notifyLevelUp(playerSnapshot): one fetch() each when httpBaseUrl is set.
Notify(c) ==
  IF c.httpBaseUrl = "" THEN c ELSE [c EXCEPT !.requests = @ + 1]

\* Messages a server sends: a welcome with and without a playerId, a
\* snapshot, text that is not JSON.
ServerMessages ==
  { [type |-> "welcome", playerId |-> 7], [type |-> "welcome"],
    [type |-> "world_snapshot"], [malformed |-> TRUE] }

InitNet ==
  /\ variant = "net"
  /\ clock = "net"
  /\ game \in {RactrNetClient(config) : config \in NetConfigs}
  /\ fetch = "pending"
  /\ ticks = 0
  /\ last = [op |-> "new"]

\* _loadConfig() of the orchestrator passes the merged net group on.
NetConfigLoaded ==
  /\ fetch = "pending"
  /\ \E config \in NetConfigs : game' = NetApplyConfig(game, config)
  /\ fetch' = "done"
  /\ last' = [op |-> "applyConfig"]
  /\ UNCHANGED <<variant, clock, ticks>>

\* update() of a run calls net.tick(dt, snapshot) with a dt that advances
\* the time.
NetTickAdvances ==
  /\ game.websocketUrl # "" /\ game.ws # 0 => game.wsLastAttempt < MaxIdle
  /\ \E dt \in NetDts \ {0} :
       /\ Reconnects(game, dt) => Len(game.sockets) < MaxAttempts
       /\ game' = NetTick(game, dt)
       /\ last' = [op |-> "tick", dt |-> dt]
  /\ game'.frames <= MaxTraffic
  /\ UNCHANGED <<variant, clock, fetch, ticks>>

\* update() of a run calls net.tick(0, snapshot).
NetTickStalls ==
  /\ Reconnects(game, 0) => Len(game.sockets) < MaxAttempts
  /\ game' = NetTick(game, 0)
  /\ game'.frames <= MaxTraffic
  /\ last' = [op |-> "tick", dt |-> 0]
  /\ UNCHANGED <<variant, clock, fetch, ticks>>

\* _startGame(), _checkCollisions() and _grantXp() notify the client.
NetNotify ==
  /\ game.requests < MaxTraffic
  /\ game' = Notify(game)
  /\ \E op \in {"notifyRunStarted", "notifyRunEnded", "notifyLevelUp"} :
       last' = [op |-> op]
  /\ UNCHANGED <<variant, clock, fetch, ticks>>

\* The connection of the client's socket is established.
SocketOpens ==
  /\ game.ws # 0
  /\ game.sockets[game.ws].readyState = "connecting"
  /\ game.frames < MaxTraffic
  /\ game' = OnOpen([game EXCEPT !.sockets[game.ws].readyState = "open"])
  /\ last' = [op |-> "open"]
  /\ UNCHANGED <<variant, clock, fetch, ticks>>

\* The connection fails: the socket is closed and fires error; its close
\* event is still to come.
SocketErrors ==
  /\ game.ws # 0
  /\ game.sockets[game.ws].readyState \in {"connecting", "open"}
  /\ Len(game.sockets) < MaxAttempts
  /\ game' = OnError([game EXCEPT !.sockets[game.ws] =
                        [readyState |-> "closed", failed |-> TRUE]])
  /\ last' = [op |-> "error"]
  /\ UNCHANGED <<variant, clock, fetch, ticks>>

\* The socket fires close: after its error, or when the server or the
\* network ends the connection.
SocketCloses ==
  /\ game.ws # 0
  /\ \/ game.sockets[game.ws].failed
     \/ /\ game.sockets[game.ws].readyState \in {"connecting", "open"}
        /\ Len(game.sockets) < MaxAttempts
  /\ game' = OnClose([game EXCEPT !.sockets[game.ws] =
                        [readyState |-> "closed", failed |-> FALSE]])
  /\ last' = [op |-> "close"]
  /\ UNCHANGED <<variant, clock, fetch, ticks>>

\* The open socket fires message.
SocketMessage ==
  /\ game.ws # 0
  /\ game.sockets[game.ws].readyState = "open"
  /\ \E msg \in ServerMessages : game' = HandleServerMessage(game, msg)
  /\ last' = [op |-> "message"]
  /\ UNCHANGED <<variant, clock, fetch, ticks>>

NextNet ==
  \/ NetConfigLoaded \/ NetTickAdvances \/ NetTickStalls \/ NetNotify
  \/ SocketOpens \/ SocketErrors \/ SocketCloses \/ SocketMessage

SpecNet == InitNet /\ [][NextNet]_vars

\* The animation loop keeps calling update() in a run, and a socket that
\* has failed fires its close event.
SpecNetLive ==
  SpecNet /\ WF_vars(NetTickAdvances) /\ WF_vars(SocketCloses)

-----------------------------------------------------------------------------
(* The pulse collection alone: a game registers any number of pulses in a  *)
(* frame (one per hit, kill, dash, level-up) and update() decays them.     *)

\* dt of the update() calls, in centiseconds.
PulseDts == {0, 16, 20}

InitPulse ==
  /\ variant = "pulses"
  /\ clock = "pulses"
  /\ game = [pulses |-> <<>>]
  /\ fetch = "none"
  /\ ticks = 0
  /\ last = [op |-> "new"]

\* The pulse of a damaging hit is registered at the player.
PulseRegistered ==
  /\ game' = [game EXCEPT
                !.pulses = RegisterPulse(@, 0, 0, "rgba(255, 90, 120, 0.9)",
                                         46, 32, 35)]
  /\ last' = [op |-> "register", held |-> Len(game.pulses)]
  /\ UNCHANGED <<variant, clock, fetch, ticks>>

\* update(dt) runs _updatePulses(dt).
PulsesDecay ==
  /\ \E dt \in PulseDts :
       /\ game' = [game EXCEPT !.pulses = UpdatePulses(@, dt)]
       /\ last' = [op |-> "decay", dt |-> dt]
  /\ UNCHANGED <<variant, clock, fetch, ticks>>

NextPulse == PulseRegistered \/ PulsesDecay

SpecPulse == InitPulse /\ [][NextPulse]_vars

-----------------------------------------------------------------------------
(* RactrEngine's loop.  The page calls start() and stop() between frames; a *)
(* frame of the browser runs the requestAnimationFrame callbacks requested  *)
(* before it, one after the other, with the frame's timestamp.              *)

\* start() calls per behaviour.
MaxStarts == 3

\* Animation frames per behaviour.
MaxFrames == 4

\* new RactrEngine(canvasId): requested are the callbacks asked for the next
\* frame, due those of the current frame that have not run yet, updates the
\* game.update() calls of the current frame, now the page's clock in frames.
RactrEngine ==
  [game |-> FALSE, running |-> FALSE, lastTime |-> 0,
   requested |-> 0, due |-> 0, updates |-> 0, now |-> 0, starts |-> 0]

\* setGame(game)
SetGame(e) == [e EXCEPT !.game = TRUE]

\* start()
Start(e) ==
  IF ~e.game THEN e
  ELSE [e EXCEPT !.running = TRUE, !.lastTime = e.now, !.requested = @ + 1]

\* stop()
Stop(e) == [e EXCEPT !.running = FALSE]

\* _loop(timestamp), timestamp the time of the current frame
Loop(e) ==
  IF ~e.running THEN e
  ELSE [e EXCEPT !.lastTime = e.now,
                 !.updates = IF e.game THEN @ + 1 ELSE @,
                 !.requested = @ + 1]

InitEngine ==
  /\ variant = "engine"
  /\ clock = "frames"
  /\ game = RactrEngine
  /\ fetch = "none"
  /\ ticks = 0
  /\ last = [op |-> "new"]

\* The page calls setGame().
EngineSetGame ==
  /\ game.due = 0
  /\ ~game.game
  /\ game' = SetGame(game)
  /\ last' = [op |-> "setGame"]
  /\ UNCHANGED <<variant, clock, fetch, ticks>>

\* The page calls start().
EngineStart ==
  /\ game.due = 0
  /\ game.starts < MaxStarts
  /\ game' = [Start(game) EXCEPT !.starts = @ + 1]
  /\ last' = [op |-> "start"]
  /\ UNCHANGED <<variant, clock, fetch, ticks>>

\* The page calls stop().
EngineStop ==
  /\ game.due = 0
  /\ game.running
  /\ game' = Stop(game)
  /\ last' = [op |-> "stop"]
  /\ UNCHANGED <<variant, clock, fetch, ticks>>

\* The browser begins an animation frame: the callbacks requested so far
\* are those it will run.
FrameBegins ==
  /\ game.due = 0
  /\ game.requested > 0
  /\ ticks < MaxFrames
  /\ game' = [game EXCEPT !.due = game.requested, !.requested = 0,
                          !.updates = 0, !.now = @ + 1]
  /\ last' = [op |-> "frame"]
  /\ ticks' = ticks + 1
  /\ UNCHANGED <<variant, clock, fetch>>

\* The browser runs the next callback of the frame.
FrameCallback ==
  /\ game.due > 0
  /\ game' = [Loop(game) EXCEPT !.due = @ - 1]
  /\ last' = [op |-> "loop"]
  /\ UNCHANGED <<variant, clock, fetch, ticks>>

NextEngine ==
  EngineSetGame \/ EngineStart \/ EngineStop \/ FrameBegins \/ FrameCallback

SpecEngine == InitEngine /\ [][NextEngine]_vars

-----------------------------------------------------------------------------
(* A run whose frames stop advancing the time: update(0, .) is called over *)
(* and over while the hazards stand where the last advancing frame left    *)
(* them, so a hazard in the near-miss band is seen by every collision pass.*)

\* update() calls per behaviour.
GrazeTicks == 104

InitGraze ==
  /\ variant \in {"orchestrator", "survival"}
  /\ clock = "graze"
  /\ game = IF variant = "orchestrator" THEN ApplyConfigToPlayer(RactrGame)
            ELSE SurvGame
  /\ fetch = "failed"
  /\ ticks = 0
  /\ last = [spawned |-> -1, sinceHit |-> -1, notes |-> NoNotes]

\* One animation frame of a run: the time advances by 20 cs or not at all
\* during the first 80 cs of the run, and not at all afterwards.
GrazeTick ==
  /\ variant \in {"orchestrator", "survival"}
  /\ game.state = "playing"
  /\ ticks < GrazeTicks
  /\ \E dt \in (IF game.timeAlive < 80 THEN {0, 20} ELSE {0}) :
       LET n == IF variant = "survival" THEN SurvSpawnsDue(game, dt)
                ELSE SpawnsDue(game, dt)
           at == [game EXCEPT !.timeAlive = @ + dt]
       IN \E rnd \in [1..n -> IF n = 0 THEN {} ELSE SpawnOutcomes(at, clock)] :
            LET g == IF variant = "survival" THEN SurvUpdate(game, dt, NoKeys, rnd)
                     ELSE Update(game, dt, NoKeys, rnd)
            IN /\ game' = g
               /\ last' = [spawned |-> IF SpawnerRuns(game, dt) THEN n ELSE -1,
                           sinceHit |-> SinceHit(last.sinceHit,
                                                 HitsApplied(game, g, dt), dt),
                           notes |-> IF variant = "orchestrator"
                                     THEN NotedTimes(last.notes, "ended",
                                                     g.timeAlive,
                                                     RunsEnded(game, g, dt))
                                     ELSE last.notes]
  /\ ticks' = ticks + 1
  /\ UNCHANGED <<variant, clock, fetch>>

NextGraze == StartKey \/ GrazeTick

SpecGraze == InitGraze /\ [][NextGraze]_vars

-----------------------------------------------------------------------------
(* A player who holds the dash key: runs of the orchestrator and of the    *)
(* ARPG in which the frames are 0, 0.2 s or 0.6 s apart and the dash key   *)
(* is held alone, with a direction, or released.  The orchestrator draws   *)
(* its hazards as the scene "keys" does, the ARPG its mobs as "skirmish".  *)

\* update() calls per behaviour.
DashTicks == 5

DashDts == {0, 20, 60}

DashInputs ==
  {Input(FALSE, FALSE, FALSE, FALSE, TRUE),
   Input(TRUE, FALSE, FALSE, FALSE, TRUE),
   Input(FALSE, TRUE, FALSE, FALSE, FALSE)}

\* The history of dashes after an update of dt under input: the dt of the
\* update and its input, the number of dashes so far (2 for more), the dt
\* of the last update that dashed and the dt of the updates after it
\* summed (-1 before the first dash, 120 for more).
DashNoted(h, dashed, dt, input) ==
  [dt |-> dt, input |-> input,
   dashes |-> IF dashed THEN Min(h.dashes + 1, 2) ELSE h.dashes,
   dashDt |-> IF dashed THEN dt ELSE h.dashDt,
   since |-> IF dashed THEN 0
             ELSE IF h.since < 0 THEN -1 ELSE Min(h.since + dt, 120)]

\* The dash is selected by _updatePlayer(dt, input) called on g: the dash
\* intent is set and the cooldown is not positive when the speed is chosen
\* (the ARPG has counted the cooldown down by then, the orchestrator not).
DashSelected(v, g, dt, input) ==
  LET cd == g.player.dashCooldown IN
  /\ g.state = "playing"
  /\ input.dash
  /\ IF v = "arpg" THEN (IF cd > 0 THEN Max(0, cd - dt) ELSE cd) <= 0
     ELSE cd <= 0

InitDash ==
  /\ \/ /\ variant = "orchestrator" /\ clock = "keys"
        /\ game = StartGame(ApplyConfigToPlayer(RactrGame))
     \/ /\ variant = "arpg" /\ clock = "skirmish"
        /\ \E lay \in Layouts(clock) : game = StartRun(ArpgGame(lay), lay)
  /\ fetch = "none"
  /\ ticks = 0
  /\ last = [dt |-> 0, input |-> NoKeys, dashes |-> 0, dashDt |-> 0,
             since |-> -1]

\* One animation frame of the orchestrator.
DashTick ==
  /\ variant = "orchestrator"
  /\ ticks < DashTicks
  /\ \E dt \in DashDts, input \in DashInputs :
       LET n == SpawnsDue(game, dt)
           at == [game EXCEPT !.timeAlive = @ + dt]
       IN \E rnd \in [1..n -> IF n = 0 THEN {} ELSE SpawnOutcomes(at, clock)] :
            /\ game' = Update(game, dt, input, rnd)
            /\ last' = DashNoted(last, DashSelected(variant, game, dt, input),
                                 dt, input)
  /\ ticks' = ticks + 1
  /\ UNCHANGED <<variant, clock, fetch>>

\* One animation frame of the ARPG.
ArpgDashTick ==
  /\ variant = "arpg"
  /\ ticks < DashTicks
  /\ \E dt \in DashDts, input \in DashInputs, roll \in Rolls(clock) :
       /\ game' = ArpgUpdate(game, dt, input, roll)
       /\ last' = DashNoted(last, DashSelected(variant, game, dt, input),
                            dt, input)
  /\ ticks' = ticks + 1
  /\ UNCHANGED <<variant, clock, fetch>>

NextDash == DashTick \/ ArpgDashTick

SpecDash == InitDash /\ [][NextDash]_vars

-----------------------------------------------------------------------------
(* The arena: runs of the orchestrator and of the survival variant during  *)
(* which the page lays the canvas out anew (the window is resized, the     *)
(* canvas hidden: clientWidth 0), with frames 0, 0.2 s or 10 s apart and   *)
(* the movement keys held alone or against each other.                     *)

\* update() calls per behaviour.
ArenaTicks == 3

ArenaDts == {0, 20, 1000}

ArenaInputs ==
  {NoKeys,
   Input(TRUE, TRUE, FALSE, FALSE, FALSE),
   Input(TRUE, TRUE, TRUE, TRUE, TRUE),
   Input(TRUE, FALSE, FALSE, FALSE, FALSE),
   Input(FALSE, FALSE, FALSE, TRUE, TRUE)}

\* canvas.clientWidth and clientHeight as the page may lay the canvas out;
\* the third is narrower than the player's inset (2 * (16 + 8) px).
ArenaSizes ==
  {Canvas,
   [clientWidth |-> 120, clientHeight |-> 100],
   [clientWidth |-> 40, clientHeight |-> 160],
   [clientWidth |-> 0, clientHeight |-> 0]}

InitArena ==
  /\ \/ /\ variant = "orchestrator"
        /\ game = StartGame(ApplyConfigToPlayer(RactrGame))
     \/ /\ variant = "survival"
        /\ game = SurvStartGame(SurvGame)
  /\ clock = "keys"
  /\ fetch = "failed"
  /\ ticks = 0
  /\ last = [dt |-> 0, input |-> NoKeys]

\* The page lays the canvas out anew between two frames.
Resize ==
  /\ \E c \in ArenaSizes \ {game.canvas} : game' = [game EXCEPT !.canvas = c]
  /\ UNCHANGED <<variant, clock, fetch, ticks, last>>

\* One animation frame.
ArenaTick ==
  /\ ticks < ArenaTicks
  /\ \E dt \in ArenaDts, input \in ArenaInputs :
       LET n == IF variant = "survival" THEN SurvSpawnsDue(game, dt)
                ELSE SpawnsDue(game, dt)
           at == [game EXCEPT !.timeAlive = @ + dt]
       IN \E rnd \in [1..n -> IF n = 0 THEN {} ELSE SpawnOutcomes(at, clock)] :
            /\ game' = IF variant = "survival"
                       THEN SurvUpdate(game, dt, input, rnd)
                       ELSE Update(game, dt, input, rnd)
            /\ last' = [dt |-> dt, input |-> input]
  /\ ticks' = ticks + 1
  /\ UNCHANGED <<variant, clock, fetch>>

NextArena == Resize \/ ArenaTick

SpecArena == InitArena /\ [][NextArena]_vars

-----------------------------------------------------------------------------
(* A long ARPG run in a tab that stalls: the frames are 100 s apart for    *)
(* the first five minutes and stop advancing the time                      *)
(* afterwards (two callbacks with one timestamp), the player stands,       *)
(* and the mobs, drawn as in "skirmish", chase past the player to the      *)
(* edges of the zone.  The spawn chance of _maybeSpawnExtraMobs() comes up *)
(* in any frame.                                                           *)

\* update() calls per behaviour.
HordeTicks == 12

HordeDts(g) == IF g.runTime < 30000 THEN {10000} ELSE {0}

InitHorde ==
  /\ variant = "arpg"
  /\ clock = "horde"
  /\ \E lay \in Layouts("skirmish") : game = StartRun(ArpgGame(lay), lay)
  /\ fetch = "none"
  /\ ticks = 0
  /\ last = [dt |-> 0]

\* One animation frame.
HordeTick ==
  /\ ticks < HordeTicks
  /\ \E dt \in HordeDts(game), roll \in Rolls("lulls") :
       /\ game' = ArpgUpdate(game, dt, NoKeys, roll)
       /\ last' = [dt |-> dt]
  /\ ticks' = ticks + 1
  /\ UNCHANGED <<variant, clock, fetch>>

SpecHorde == InitHorde /\ [][HordeTick]_vars

-----------------------------------------------------------------------------
(* The volley: a run of the ARPG in which the player has run to the left   *)
(* wall of the zone and from there the attack key is pressed between       *)
(* frames 0, 0.15 s or 0.45 s apart, the mobs of the skirmish closing in   *)
(* from the right.  A projectile flies 312 px in its 0.6 s; from the       *)
(* middle of the zone it leaves the zone before the cooldown is over.      *)

\* update() calls per behaviour.
VolleyTicks == 6

VolleyDts == {0, 15, 45}

\* Whether update(dt) of g performs an attack: the test of _updatePlayer(),
\* made on the cooldown the same call has just counted down.
AttackSelected(g, dt) ==
  /\ g.state = "playing"
  /\ g.pendingAttack
  /\ (IF g.player.attackCooldown > 0 THEN Max(0, g.player.attackCooldown - dt)
      ELSE g.player.attackCooldown) <= 0

\* The run after the two frames of 0.45 s, the left key held, that take the
\* player to the wall.
AtTheWall(lay, roll) ==
  LET left == Input(TRUE, FALSE, FALSE, FALSE, FALSE)
  IN ArpgUpdate(ArpgUpdate(StartRun(ArpgGame(lay), lay), 45, left, roll),
                45, left, roll)

InitVolley ==
  /\ variant = "arpg" /\ clock = "skirmish"
  /\ \E lay \in Layouts(clock), roll \in Rolls(clock) :
       game = AtTheWall(lay, roll)
  /\ fetch = "failed"
  /\ ticks = 0
  /\ last = [dt |-> 0, attacks |-> 0, requested |-> FALSE, dropped |-> FALSE]

\* One animation frame of the ARPG.
VolleyTick ==
  /\ ticks < VolleyTicks
  /\ \E dt \in VolleyDts, roll \in Rolls(clock) :
       /\ game' = ArpgUpdate(game, dt, NoKeys, roll)
       /\ last' = [dt |-> dt,
                   attacks |-> IF AttackSelected(game, dt)
                               THEN Min(3, last.attacks + 1) ELSE last.attacks,
                   requested |-> game.pendingAttack,
                   dropped |-> \/ last.dropped
                               \/ /\ game.state = "playing"
                                  /\ game.pendingAttack
                                  /\ ~AttackSelected(game, dt)]
  /\ ticks' = ticks + 1
  /\ UNCHANGED <<variant, clock, fetch>>

NextVolley == VolleyTick \/ AttackKey

SpecVolley == InitVolley /\ [][NextVolley]_vars

-----------------------------------------------------------------------------
(* Properties                                                              *)

\* What a step is: an update() call, or a key listener.
IsTick == ticks' = ticks + 1

IsKey == ticks' = ticks /\ fetch' = fetch

\* The survival time of the run: timeAlive, runTime in the ARPG.
RunTimeOf(g) == IF variant = "arpg" THEN g.runTime ELSE g.timeAlive

\* Some hazard overlaps the player of g (distance <= sum of the radii).
Overlapped(g) ==
  \E i \in 1..Len(g.hazards) :
    LET dx == g.hazards[i].x - g.player.x
        dy == g.hazards[i].y - g.player.y
        r == g.hazards[i].radius + g.player.radius
    IN dx * dx + dy * dy <= r * r

C2_GrantXpSettles ==
  [][LET p == game.player
         q == game'.player
         amount == last'.amount
     IN /\ amount > 0 => q.xp < q.xpToNext
        /\ q.xp >= 0
        /\ q.level >= p.level
        /\ p.xpToNext > 0 /\ q.xpToNext > 0
        /\ (q.level - p.level) * p.xpToNext <= p.xp + amount]_vars

\* One call has taken the player up two levels or more.
C2_Witness ==
  /\ clock = "calls"
  /\ ticks = 1
  /\ last.amount > 0
  /\ game.player.level >= 3
  /\ game.player.xp < game.player.xpToNext

\* The invulnerability the player has when update(dt, .) resolves the
\* collisions, from the game before the tick.
InvulnAtCollision(g, dt) ==
  IF g.player.invulnTime > 0 THEN Max(0, g.player.invulnTime - dt)
  ELSE g.player.invulnTime

\* C3: in the orchestrator, and in the survival variant under a configuration
\* with its three groups, a tick of a run in which a hazard overlaps the
\* player, the player is not invulnerable and has at most damagePerHit health
\* ends with the state gameover and bestTime the greater of the previous
\* bestTime and the run's timeAlive.
C3_LethalHitEndsRun ==
  [][(/\ variant \in {"orchestrator", "survival"}
      /\ IsTick
      /\ game.state = "playing"
      /\ WholeConfig(game)
      /\ Overlapped(game')
      /\ InvulnAtCollision(game, game'.time - game.time) <= 0
      /\ game.player.health <= game.config.hazards.damagePerHit)
     => /\ game'.state = "gameover"
        /\ game'.bestTime = Max(game.bestTime, game'.timeAlive)
        /\ game'.timeAlive = game.timeAlive + (game'.time - game.time)]_vars

\* A run has just ended on a hit, with a hazard on the player.
C3_Witness ==
  /\ variant \in {"orchestrator", "survival"}
  /\ game.state = "gameover"
  /\ game.lastHitTime = game.time
  /\ Overlapped(game)
  /\ game.timeAlive > 0
  /\ game.bestTime = game.timeAlive

\* C4: the run state changes only from intro to playing and from gameover or
\* dead to playing, both by the start key, and from playing to gameover or
\* dead in an update that resolved a hit; the start key changes nothing
\* during a run (the attack key only sets pendingAttack), and no step enters
\* intro.
C4_RunStateTransitions ==
  [][LET a == game.state
         b == game'.state
     IN /\ b = "intro" => a = "intro"
        /\ (a = "intro" /\ b # a) => (b = "playing" /\ IsKey)
        /\ (a \in {"gameover", "dead"} /\ b # a) => (b = "playing" /\ IsKey)
        /\ (a = "playing" /\ b # a)
             => /\ b = (IF variant = "arpg" THEN "dead" ELSE "gameover")
                /\ IsTick
                /\ game'.lastHitTime = game'.time
        /\ (a = "playing" /\ IsKey)
             => /\ variant = "arpg"
                /\ game' = [game EXCEPT !.pendingAttack = TRUE]]_vars

\* A run started after an earlier run ended.
C4_Witness ==
  /\ game.state = "playing"
  /\ game.bestTime > 0
  /\ RunTimeOf(game) = 0

\* C5: a step of the orchestrator that starts a run leaves the state
\* playing, timeAlive 0, no hazard and no pulse, health at maxHealth, mana at
\* maxMana, dashCooldown and invulnTime 0, the velocity zero and
\* nearMissStreak 0.
C5_StartResetsRun ==
  [][(variant = "orchestrator" /\ game.state # "playing"
        /\ game'.state = "playing")
     => /\ game'.timeAlive = 0
        /\ game'.hazards = <<>>
        /\ game'.pulses = <<>>
        /\ game'.player.health = game'.player.maxHealth
        /\ game'.player.mana = game'.player.maxMana
        /\ game'.player.dashCooldown = 0
        /\ game'.player.invulnTime = 0
        /\ game'.player.vx = 0 /\ game'.player.vy = 0
        /\ game'.nearMissStreak = 0]_vars

\* The orchestrator restarted after a run that ended, untouched since.
C5_Witness ==
  /\ variant = "orchestrator"
  /\ game.state = "playing"
  /\ game.timeAlive = 0
  /\ game.bestTime > 0
  /\ game.hazards = <<>>
  /\ game.pulses = <<>>

\* C6: from every state the orchestrator or the survival variant reaches, a
\* start followed at once by a second start gives the game the first start
\* gave, also when the first start is what initialises the player from the
\* configuration.
C6_StartIdempotent ==
  /\ variant = "orchestrator" => StartGame(StartGame(game)) = StartGame(game)
  /\ variant = "survival" => SurvStartGame(SurvStartGame(game)) = SurvStartGame(game)

\* Frames have passed on the intro screen and the player is not yet
\* initialised from the configuration: the next start will do it.
C6_Witness ==
  /\ variant = "orchestrator"
  /\ ~game.player.initializedFromConfig
  /\ game.time > 0
  /\ StartGame(game).player.initializedFromConfig

\* C7: no step lowers bestTime, and in the states gameover and dead bestTime
\* is at least the survival time of the run that ended.
C7_BestTimeMonotone ==
  [][/\ game'.bestTime >= game.bestTime
     /\ game'.state \in {"gameover", "dead"} => game'.bestTime >= RunTimeOf(game')]_vars

\* A second run has ended sooner than the best one.
C7_Witness ==
  /\ game.state \in {"gameover", "dead"}
  /\ RunTimeOf(game) > 0
  /\ game.bestTime > RunTimeOf(game)

\* C8: along a run the difficulty factor is clamp(timeAlive, 0, 60 s) / 60 s:
\* within [0, 1], 0 at timeAlive 0, 1 from 60 s on, and never lower at a later
\* timeAlive.
C8_DifficultyFactorRamp ==
  [][LET t == game.timeAlive
         u == game'.timeAlive
         f == DifficultyFactor(t)
         h == DifficultyFactor(u)
     IN /\ f.d > 0 /\ h.d > 0
        /\ 0 <= f.n /\ f.n <= f.d
        /\ 0 <= h.n /\ h.n <= h.d
        /\ t = 0 => f.n = 0
        /\ u >= 6000 => h.n = h.d
        /\ (0 <= u /\ u <= 6000) => h.n * 6000 = u * h.d
        /\ t <= u => f.n * h.d <= h.n * f.d]_vars

\* The ramp has been followed beyond 60 s.
C8_Witness ==
  /\ clock = "ramp"
  /\ game.timeAlive > 6000
  /\ DifficultyFactor(game.timeAlive).n = DifficultyFactor(game.timeAlive).d

\* The value of the mixed number r times k, for small denominators.
Scaled(r, k) == (r.w * r.d + r.n) * k

\* C9: along a run the spawn interval is base + (min - base) * f*f*(3-2f):
\* base at timeAlive 0, the midpoint of base and min at 30 s, min from 60 s
\* on, within [min, base] and never higher at a later timeAlive; wherever the
\* factor has a denominator of at most 12 the value is compared with the
\* formula outright.
C9_SpawnIntervalCurve ==
  [][LET h == game'.config.hazards
         base == h.baseSpawnInterval
         min == h.minSpawnInterval
         u == game'.timeAlive
         s == game'.spawnInterval
         f == DifficultyFactor(u)
     IN /\ u = 0 => s = Whole(base)
        /\ u = 3000 => (s.d \in {1, 2} /\ Scaled(s, 2) = (base + min) * s.d)
        /\ u >= 6000 => s = Whole(min)
        /\ MixedLeq(Whole(min), s)
        /\ MixedLeq(s, Whole(base))
        /\ MixedLeq(s, game.spawnInterval)
        /\ f.d <= 12 =>
             Scaled(s, f.d * f.d * f.d)
               = (base * f.d * f.d * f.d
                    + (min - base) * f.n * f.n * (3 * f.d - 2 * f.n)) * s.d]_vars

\* The run is 30 s old and the spawn interval is halfway from base to min.
C9_Witness ==
  /\ clock = "ramp"
  /\ game.timeAlive = 3000
  /\ Scaled(game.spawnInterval, 2)
       = (game.config.hazards.baseSpawnInterval
            + game.config.hazards.minSpawnInterval) * game.spawnInterval.d
  /\ game.config.hazards.baseSpawnInterval > game.config.hazards.minSpawnInterval

\* The number of spawnCountIncreaseTimes thresholds the run has passed.
Crossed(g) ==
  Cardinality({i \in 1..Len(g.config.difficulty.spawnCountIncreaseTimes) :
                 g.timeAlive >= g.config.difficulty.spawnCountIncreaseTimes[i]})

\* C10: in an update (the configuration does not change in one) whose
\* spawner runs, the hazards added are
\* min(1 + thresholds passed, max(0, maxOnScreen - hazards.length)), with
\* maxOnScreen the configured value, and a hazard count within the
\* configured maxOnScreen before the update is within it after.
C10_SpawnWithinConfiguredCap ==
  [][(/\ variant \in {"orchestrator", "survival"}
      /\ IsTick
      /\ last'.spawned >= 0)
     => LET cap == game.config.hazards.maxOnScreen IN
        /\ last'.spawned = Min(1 + Crossed(game'), Max(0, cap - Len(game.hazards)))
        /\ Len(game.hazards) <= cap => Len(game'.hazards) <= cap]_vars

\* Some hazard's centre is at exactly hazard.radius + player.radius from
\* the player's.
Grazed(g) ==
  \E i \in 1..Len(g.hazards) :
    LET dx == g.hazards[i].x - g.player.x
        dy == g.hazards[i].y - g.player.y
        r == g.hazards[i].radius + g.player.radius
    IN dx * dx + dy * dy = r * r

\* C11: in the orchestrator, and in the survival variant under a
\* configuration with its three groups, a tick of a run that leaves a hazard
\* at exactly the sum of the radii from the player, the player not being
\* invulnerable, applies the hit in that tick: the hit is recorded at the
\* tick's time, the invulnerability window opens, and the health drops by
\* damagePerHit (to 0 at the least) unless a level-up of the same tick heals.
C11_BoundaryContactHits ==
  [][(/\ variant \in {"orchestrator", "survival"}
      /\ IsTick
      /\ game.state = "playing"
      /\ WholeConfig(game)
      /\ Grazed(game')
      /\ InvulnAtCollision(game, game'.time - game.time) <= 0
      /\ game.player.health > 0)
     => /\ game'.lastHitTime = game'.time
        /\ game'.player.invulnTime = 45
        /\ (variant = "orchestrator" /\ game'.player.level = game.player.level)
             => game'.player.health
                  = Max(0, game.player.health - game.config.hazards.damagePerHit)
        /\ variant = "survival"
             => game'.player.health
                  = Max(0, game.player.health - game.config.hazards.damagePerHit)]_vars

\* A hit was applied in a tick whose only contact is on the boundary.
C11_Witness ==
  /\ variant \in {"orchestrator", "survival"}
  /\ Grazed(game)
  /\ \A i \in 1..Len(game.hazards) :
       LET dx == game.hazards[i].x - game.player.x
           dy == game.hazards[i].y - game.player.y
           r == game.hazards[i].radius + game.player.radius
       IN dx * dx + dy * dy >= r * r
  /\ game.lastHitTime = game.time
  /\ game.player.invulnTime = 45
  /\ game.player.health < game.player.maxHealth

\* The mobs of h that went through the contact loop of the update that led
\* from g to h: the ones the cull of _updateMobs kept, all of them alive then
\* (a mob spawned by _maybeSpawnExtraMobs comes after the loop).
Contacted(g, h) ==
  1..Cardinality({k \in 1..Len(g.mobs) : g.mobs[k].alive \/ g.mobs[k].health > 0})

\* Ten times the distance from mob to player p is at most tenfold.
MobWithin(mob, p, tenfold) ==
  LET dx == 10 * (mob.x - p.x)
      dy == 10 * (mob.y - p.y)
  IN dx * dx + dy * dy <= tenfold * tenfold

\* The update that led from game to game' applied contact damage: the
\* player was vulnerable when the collisions were resolved and the 0.7 s
\* window is open after them.
ArpgHit ==
  /\ InvulnAtCollision(game, game'.time - game.time) <= 0
  /\ game'.player.invulnTime = 70
  /\ game'.lastHitTime = game'.time

\* An update of a run of the ARPG.
ArpgPlayingTick ==
  variant = "arpg" /\ IsTick /\ game.state = "playing" /\ game.player.health > 0

\* C12 as stated: an update of an ARPG run damages the player exactly when
\* some live mob is within mob.radius + player.radius of the player and the
\* player is not invulnerable.
C12_ContactWithinFullRadius ==
  [][ArpgPlayingTick
     => (ArpgHit <=>
           /\ InvulnAtCollision(game, game'.time - game.time) <= 0
           /\ \E k \in Contacted(game, game') :
                MobWithin(game'.mobs[k], game'.player,
                          10 * (game'.mobs[k].radius + game'.player.radius)))]_vars

\* C12, amended: an update of an ARPG run damages the player exactly when
\* some live mob is within mob.radius + 0.8 * player.radius of the player
\* (boundary included) and the player is not invulnerable; the health then
\* drops, and otherwise stays, unless a level-up of the same update refills it.
C12_ContactWithinReducedRadius ==
  [][ArpgPlayingTick
     => /\ ArpgHit <=>
             /\ InvulnAtCollision(game, game'.time - game.time) <= 0
             /\ \E k \in Contacted(game, game') :
                  MobWithin(game'.mobs[k], game'.player,
                            10 * game'.mobs[k].radius + 8 * game'.player.radius)
        /\ game'.player.level = game.player.level
             => IF ArpgHit THEN game'.player.health < game.player.health
                ELSE game'.player.health = game.player.health]_vars

\* A run in which a live mob stands within mob.radius + player.radius of a
\* vulnerable player, none within mob.radius + 0.8 * player.radius, and the
\* update has applied no damage.
C12_Witness ==
  /\ variant = "arpg"
  /\ game.state = "playing"
  /\ ticks > 0
  /\ game.runTime > 0
  /\ game.player.invulnTime = 0
  /\ game.lastHitTime # game.time
  /\ \E k \in 1..Len(game.mobs) :
       /\ game.mobs[k].alive
       /\ MobWithin(game.mobs[k], game.player,
                    10 * (game.mobs[k].radius + game.player.radius))
  /\ \A k \in 1..Len(game.mobs) :
       ~MobWithin(game.mobs[k], game.player,
                  10 * game.mobs[k].radius + 8 * game.player.radius)

\* The invulnerability window a damaging hit opens: 0.45 s in the survival
\* variants, 0.7 s in the ARPG.
InvulnWindow == IF variant = "arpg" THEN 70 ELSE 45

\* No damage under invulnerability and at most one damaging hit in the
\* update that led from game to game'.
OneHitWhenVulnerable ==
  LET dt == game'.time - game.time
      hits == HitsApplied(game, game', dt)
  IN /\ hits \in {0, 1}
     /\ InvulnAtCollision(game, dt) > 0
          => (hits = 0 /\ game'.player.health >= game.player.health)
     /\ hits = 1 => game'.player.invulnTime = InvulnWindow
     /\ (hits = 0 /\ (variant = "survival"
                         \/ game'.player.level = game.player.level))
          => game'.player.health = game.player.health

\* C13 as stated: no update damages an invulnerable player, an update
\* applies at most one damaging hit, and the simulated time between two
\* consecutive damaging hits, whichever runs they fall in, is at least the
\* invulnerability window.
C13_HitsAWindowApart ==
  [][IsTick
     => /\ OneHitWhenVulnerable
        /\ (HitsApplied(game, game', game'.time - game.time) > 0
              /\ last.sinceHit >= 0)
             => last.sinceHit + (game'.time - game.time) >= InvulnWindow]_vars

\* C13, amended: no update damages an invulnerable player, an update applies
\* at most one damaging hit however many hostiles overlap, and the simulated
\* time between two consecutive damaging hits of one run is at least the
\* invulnerability window.
C13_HitsOfARunAWindowApart ==
  [][IsTick
     => /\ OneHitWhenVulnerable
        /\ (HitsApplied(game, game', game'.time - game.time) > 0
              /\ game.state = "playing"
              /\ game.lastHitTime > -99900)
             => game'.time - game.lastHitTime >= InvulnWindow]_vars

\* The second damaging hit of an ARPG run has just been applied (one hit
\* takes 24 health at the most), with two or more live mobs on the player.
C13_Witness ==
  /\ variant = "arpg"
  /\ last.sinceHit = 0
  /\ game.lastHitTime = game.time
  /\ game.player.invulnTime = 70
  /\ game.player.health > 0
  /\ game.player.maxHealth - game.player.health > 24
  /\ Cardinality({k \in 1..Len(game.mobs) :
                    /\ game.mobs[k].alive
                    /\ MobWithin(game.mobs[k], game.player,
                                 ContactReach(game.mobs[k], game.player))}) >= 2

\* The threshold xpToNext takes when a level-up reaches `level`, in the
\* build's unit of experience.
ThresholdAt(g, level) ==
  CASE variant = "orchestrator" ->
         ComputeXpForLevel(level + 1, g.config.progression)
    [] variant = "arpg" -> (130 * Pow128[level + 1]) \div 100000 + 60
    [] OTHER -> 300 * ((120 * Pow125[level + 1]) \div 100000 + 40)

\* The thresholds a call consumes that takes the player from level `from`
\* to level `to`: the one in force before the call, then the one each
\* level-up but the last has set.
RECURSIVE ThresholdsConsumed(_, _, _)
ThresholdsConsumed(g, from, to) ==
  IF to <= from THEN 0
  ELSE (IF to - 1 = g.player.level THEN g.player.xpToNext
        ELSE ThresholdAt(g, to - 1))
         + ThresholdsConsumed(g, from, to - 1)

\* C14: one _grantXp(amount) call conserves experience, however many levels
\* it gains: xp before plus the amount is xp after plus the thresholds
\* consumed, and after a level-up xpToNext is the threshold of the new level;
\* from xp 95 of 100, a grant of 10 gains exactly one level and leaves xp 5.
C14_GrantXpConserves ==
  [][LET p == game.player
         q == game'.player
         amount == last'.amount
     IN /\ p.xp + amount
             = q.xp + ThresholdsConsumed(game, p.level, q.level)
        /\ q.level > p.level => q.xpToNext = ThresholdAt(game, q.level)
        /\ q.level = p.level => q.xpToNext = p.xpToNext
        /\ (variant = "orchestrator" /\ p.xp = 9500 /\ p.xpToNext = 10000
              /\ amount = 1000)
             => /\ q.level = p.level + 1
                /\ q.xp = 500
                /\ q.xpToNext
                     = ComputeXpForLevel(q.level + 1, game.config.progression)]_vars

\* The orchestrator's player had xp 95 of 100 and a grant of 10 has taken it
\* to the next level with xp 5.
C14_Witness ==
  /\ variant = "orchestrator"
  /\ clock = "calls"
  /\ ticks = 2
  /\ last.amount = 1000
  /\ game.player.level = 2
  /\ game.player.xp = 500
  /\ game.config.progression.baseXpToLevel = 50

\* The mobs of g that the cull of _updateMobs() keeps, in their order.
Survivors(g) == SelectSeq(g.mobs, LAMBDA m : m.alive \/ m.health > 0)

\* The health that mob k of the survivors of g has lost in h.
HealthLost(g, h, k) == Survivors(g)[k].health - h.mobs[k].health

\* F[1] + ... + F[n]
RECURSIVE SumTo(_, _)
SumTo(F, n) == IF n = 0 THEN 0 ELSE F[n] + SumTo(F, n - 1)

\* The projectiles of g that a hit has spent.
SpentIn(g) == {j \in 1..Len(g.projectiles) : g.projectiles[j].life <= 0}

\* The projectile is within 40 units of the zone rectangle.
NearZone(pr) ==
  LET rect == GetStaticZoneRect IN
  /\ pr.x >= rect.minX - 400 /\ pr.x <= rect.maxX + 400
  /\ pr.y >= rect.minY - 400 /\ pr.y <= rect.maxY + 400

\* C15: in the ARPG every update leaves only projectiles that the cull kept
\* (inside the zone rectangle widened by 40, life not expired) or that a hit
\* of this update has spent (life exactly 0); each spent projectile accounts
\* for the damage of exactly one mob: the health the mobs lost in the update
\* is the sum of the damages of the projectiles spent in it, and no more mobs
\* lost health than projectiles were spent.  A projectile spent in one update
\* is therefore gone after the next, as is one that expired or left the zone.
C15_ProjectileHitsOnce ==
  [][(variant = "arpg" /\ IsTick /\ game.state = "playing") =>
       LET n == Len(Survivors(game))
           lost == [k \in 1..n |-> HealthLost(game, game', k)]
           spent == SpentIn(game')
           dealt == [j \in 1..Len(game'.projectiles) |->
                       IF j \in spent THEN game'.projectiles[j].damage ELSE 0]
       IN /\ Len(game'.mobs) >= n
          /\ \A k \in 1..n : lost[k] >= 0
          /\ SumTo(lost, n) = SumTo(dealt, Len(game'.projectiles))
          /\ Cardinality({k \in 1..n : lost[k] > 0}) <= Cardinality(spent)
          /\ \A j \in 1..Len(game'.projectiles) :
               LET pr == game'.projectiles[j] IN
               /\ NearZone(pr)
               /\ pr.life >= 0
               /\ pr.damage > 0]_vars

\* A projectile has been spent where two live mobs or more overlapped it, and
\* one mob only has lost health.
C15_Witness ==
  /\ variant = "arpg"
  /\ \E j \in SpentIn(game) :
       LET pr == game.projectiles[j]
           reached == {k \in 1..Len(game.mobs) :
                         DistLeq(game.mobs[k].x - pr.x, game.mobs[k].y - pr.y,
                                 game.mobs[k].radius + pr.radius)}
       IN /\ Cardinality(reached) >= 2
          /\ Cardinality({k \in reached :
                            game.mobs[k].health < game.mobs[k].maxHealth}) = 1
          /\ \A k \in reached : game.mobs[k].alive

\* The pulses in flight that _onMobKilled registered.
KillPulses(pulses) ==
  Cardinality({i \in 1..Len(pulses) : pulses[i].color = "rgba(170, 255, 210, 0.9)"})

\* The survivors of g that the update leading to h has killed: health above
\* 0 before, at 0 or below after.
KilledIn(g, h) ==
  {k \in 1..Len(Survivors(g)) : Survivors(g)[k].health > 0 /\ h.mobs[k].health <= 0}

\* The experience the player of h has been granted since g.
XpGranted(g, h) ==
  h.player.xp + ThresholdsConsumed(g, g.player.level, h.player.level) - g.player.xp

\* C16: in the ARPG a mob is alive exactly when its health is above 0; an
\* update of a run culls the mobs that were dead before it, so that none of
\* them is damaged, rewarded or in contact again, and fires the kill event
\* once for each mob whose health it brings from above 0 to 0 or below: one
\* kill pulse, 1 to 4 gold and baseXp to baseXp + 6 experience per mob
\* killed, lastKillTime set to the time of the update, and nothing of these
\* when no mob is killed.
C16_KillEventOnce ==
  [][(variant = "arpg" /\ IsTick /\ game.state = "playing") =>
       LET n == Len(Survivors(game))
           killed == KilledIn(game, game')
           kills == Cardinality(killed)
           dt == game'.time - game.time
           base == [k \in 1..n |-> IF k \in killed THEN game'.mobs[k].baseXp ELSE 0]
           gold == game'.player.gold - game.player.gold
           xp == XpGranted(game, game')
       IN /\ \A k \in 1..Len(game.mobs) :
               game.mobs[k].alive <=> game.mobs[k].health > 0
          /\ \A k \in 1..Len(game'.mobs) :
               /\ game'.mobs[k].alive <=> game'.mobs[k].health > 0
               /\ ~game'.mobs[k].alive => k \in killed
          /\ \A k \in 1..n : Survivors(game)[k].alive
          /\ Len(game'.mobs) \in {n, n + 1}
          /\ KillPulses(game'.pulses)
               = KillPulses(UpdatePulses(game.pulses, dt)) + kills
          /\ gold >= kills /\ gold <= 4 * kills
          /\ xp >= SumTo(base, n) /\ xp <= SumTo(base, n) + 6 * kills
          /\ game'.lastKillTime
               = IF kills > 0 THEN game'.time ELSE game.lastKillTime]_vars

\* A mob killed by the last update is still listed, dead, and the player has
\* its gold and experience.
C16_Witness ==
  /\ variant = "arpg"
  /\ \E k \in 1..Len(game.mobs) :
       ~game.mobs[k].alive /\ game.mobs[k].health <= 0
  /\ game.lastKillTime = game.time
  /\ game.player.gold > ArpgPlayer.gold
  /\ game.player.xp > 0
  /\ KillPulses(game.pulses) >= 1

\* A step is a _dealDamageToPlayer call.
IsContact == "contact" \in DOMAIN last'

\* max(1, round(max(0, amount - defense * 0.5)))
FinalDamage(amount, defense) == Max(1, Round(Max(0, 2 * amount - defense), 2))

\* C17: every _dealDamageToPlayer(contactDamage) call of the ARPG leaves
\* health at max(0, health - F) with F = max(1, round(max(0, contactDamage -
\* defense * 0.5))); F is at least 1 whatever the defense and at most the
\* contact damage.
C17_DamageFloorAndCap ==
  [][IsContact =>
       LET p == game.player
           amount == last'.contact
           final == FinalDamage(amount, p.defense)
       IN /\ game'.player.health = Max(0, p.health - final)
          /\ game'.player.health < p.health
          /\ final >= 1
          /\ final <= amount
          /\ game'.player.defense = p.defense]_vars

\* A contact has cost one point of health: the defense of the player, grown
\* by level-ups, is twice the contact damage or more.
C17_Witness ==
  /\ variant = "arpg"
  /\ "contact" \in DOMAIN last
  /\ game.player.defense >= 2 * last.contact
  /\ game.player.health = game.player.maxHealth - 1

\* C18: an update(dt, .) that starts outside a run (intro, gameover, dead)
\* changes the wall-clock time, which it advances by dt, and the pulses, and
\* nothing else: the player, the hazards or mobs and projectiles, the
\* survival time, the spawn timer, xp and level and bestTime are those of the
\* state before it.
C18_IdleUpdateTouchesTimeAndPulses ==
  [][(IsTick /\ game.state # "playing") =>
       /\ DOMAIN game' = DOMAIN game
       /\ \A f \in DOMAIN game \ {"time", "pulses"} : game'[f] = game[f]
       /\ game'.time >= game.time
       /\ game'.pulses = UpdatePulses(game.pulses, game'.time - game.time)]_vars

\* Time has passed on the screen that follows a run that ended with a hit.
C18_Witness ==
  /\ game.state \in {"gameover", "dead"}
  /\ game.time > game.lastHitTime
  /\ game.lastHitTime >= 0
  /\ ticks >= 2

RecognizedConfig == IF variant = "survival" THEN SurvDefaultConfig ELSE DefaultConfig

\* Every recognized field of every recognized group has a value in g.
FieldsDefined(g) ==
  \A group \in DOMAIN RecognizedConfig :
    /\ Has(g, group)
    /\ DOMAIN RecognizedConfig[group] \subseteq DOMAIN g.config[group]

\* C20: in the orchestrator and the survival variant every recognized
\* configuration field has a value in every state, also after a fetched
\* configuration that leaves groups or fields out has been applied.
C20_ConfigFieldsDefined ==
  variant \in {"orchestrator", "survival"} => FieldsDefined(game)

\* A step is the arrival of the fetched configuration.
IsConfigArrival == fetch = "pending" /\ fetch' = "done"

\* C21: a configuration that arrives during a run leaves the run state,
\* timeAlive, the hazards, level and xp as they were and changes health and
\* mana only by clamping them to the re-derived maxima (never upwards); one
\* that arrives outside a run sets health and mana to the maxima.
C21_ConfigArrivalKeepsRun ==
  [][IsConfigArrival =>
       LET p == game.player
           q == game'.player
           full == variant = "orchestrator"
       IN /\ game'.state = game.state
          /\ game'.timeAlive = game.timeAlive
          /\ game'.hazards = game.hazards
          /\ full => (q.level = p.level /\ q.xp = p.xp)
          /\ game.state = "playing"
               => /\ q.health = Min(p.health, q.maxHealth)
                  /\ q.health <= p.health
                  /\ full => (q.mana = Min(p.mana, q.maxMana) /\ q.mana <= p.mana)
          /\ game.state # "playing"
               => /\ q.health = q.maxHealth
                  /\ full => q.mana = q.maxMana]_vars

\* A configuration has arrived in a run of the orchestrator after a hit and
\* has lowered the maximum of health below the health the player had left:
\* health is at the new maximum.
C21_Witness ==
  /\ variant = "orchestrator"
  /\ fetch = "done"
  /\ game.state = "playing"
  /\ game.lastHitTime >= 0
  /\ game.player.level = 1
  /\ game.player.health = game.player.maxHealth
  /\ game.hazards # <<>>


\* C22: with websocketUrl and httpBaseUrl both empty, tick, notifyRunStarted,
\* notifyRunEnded and notifyLevelUp leave the client as it was: no socket
\* is made, no request and no frame is sent, no field changes -- what the
\* stand-in of empty functions does.
C22_UnconfiguredClientIsInert ==
  [][(/\ variant = "net"
      /\ game.websocketUrl = "" /\ game.httpBaseUrl = ""
      /\ last'.op \in {"tick", "notifyRunStarted", "notifyRunEnded",
                       "notifyLevelUp"})
     => game' = game]_vars

\* An unconfigured client that was just notified of a level-up, with
\* nothing requested and no socket made.
C22_Witness ==
  /\ variant = "net"
  /\ game.websocketUrl = "" /\ game.httpBaseUrl = ""
  /\ last.op = "notifyLevelUp"
  /\ game.requests = 0 /\ game.sockets = <<>> /\ game.wsLastAttempt = 0


\* The n-th socket is the last one made and its connection is lost: it
\* has fired error, or close.
Lost(n) ==
  /\ variant = "net"
  /\ Len(game.sockets) = n
  /\ game.sockets[n].readyState = "closed"

\* C23: after onerror or onclose of the client's socket, while a
\* websocketUrl is configured and the ticks of a run keep arriving, the
\* reconnect timer leads to a new connection attempt.
C23_LostSocketIsRetried ==
  \A n \in 1..(MaxAttempts - 1) :
    Lost(n) ~> (Len(game.sockets) > n \/ game.websocketUrl = "")

\* The tick that makes the second socket after the first one was lost.
C23_Witness ==
  /\ variant = "net"
  /\ Len(game.sockets) = 2
  /\ game.sockets[1].readyState = "closed"
  /\ game.sockets[2].readyState = "connecting"
  /\ game.ws = 2 /\ game.wsLastAttempt = 0
  /\ last.op = "tick"


\* C24: the pulse collection never holds more than 65 pulses (a pulse
\* registered while more than 64 are held replaces the oldest one); after a
\* decay pass every pulse held has 0 < life <= maxLife, and the pass removes
\* exactly the pulses whose life it brings to 0 or below.
C24_PulsesBounded ==
  [][variant = "pulses" =>
       /\ Len(game'.pulses) <= 65
       /\ last'.op = "register" /\ Len(game.pulses) > 64 =>
            /\ Len(game'.pulses) = Len(game.pulses)
            /\ SubSeq(game'.pulses, 1, Len(game.pulses) - 1) = Tail(game.pulses)
       /\ last'.op = "decay" =>
            /\ \A i \in 1..Len(game'.pulses) :
                 /\ game'.pulses[i].life > 0
                 /\ game'.pulses[i].life <= game'.pulses[i].maxLife
            /\ Len(game'.pulses)
                 = Cardinality({i \in 1..Len(game.pulses) :
                                  game.pulses[i].life - last'.dt > 0})]_vars

\* A pulse registered while 65 were held, the oldest of which had
\* survived a decay pass: 65 are held again.
C24_Witness ==
  /\ variant = "pulses"
  /\ last.op = "register" /\ last.held = 65
  /\ Len(game.pulses) = 65
  /\ game.pulses[1].life < game.pulses[1].maxLife


\* An update() of the orchestrator that starts in a run.
IsActiveTick == IsTick /\ variant = "orchestrator" /\ game.state = "playing"

\* The pulses held before the step, decayed by the step's dt.
DecayedBefore == UpdatePulses(game.pulses, game'.time - game.time)

\* C25: within one active tick of the orchestrator the pulses are decayed
\* first, before the player, the spawner and the hazards, the collisions
\* and the progression are processed: the pulses held before the tick are
\* decayed by the tick's dt, and every pulse registered during the tick
\* (dash, hit, near miss, level-up) still has its full life when the tick
\* completes.
C25_PulsesDecayBeforeStages ==
  [][IsActiveTick =>
       /\ Len(game'.pulses) >= Len(DecayedBefore)
       /\ SubSeq(game'.pulses, 1, Len(DecayedBefore)) = DecayedBefore
       /\ \A i \in (Len(DecayedBefore) + 1)..Len(game'.pulses) :
            game'.pulses[i].life = game'.pulses[i].maxLife]_vars

\* C25 as stated: the pulses are advanced after the stages of the tick, so
\* a pulse registered during the tick is already decayed by the tick's dt
\* when the tick completes.
C25_PulsesDecayAfterStages ==
  [][IsActiveTick =>
       \A i \in (Len(DecayedBefore) + 1)..Len(game'.pulses) :
         game'.pulses[i].life
           = game'.pulses[i].maxLife - (game'.time - game.time)]_vars

\* The tick of a hit, in which time passed: the pulse of the hit has its
\* full life and follows a pulse that has decayed.
C25_Witness ==
  /\ variant = "orchestrator"
  /\ game.time > 0 /\ game.lastHitTime = game.time
  /\ Len(game.pulses) >= 2
  /\ LET n == Len(game.pulses)
     IN /\ game.pulses[n].color = "rgba(255, 90, 120, 0.9)"
        /\ game.pulses[n].life = game.pulses[n].maxLife
        /\ game.pulses[1].life < game.pulses[1].maxLife


\* A _grantXp() call of the ARPG or the town variant that levelled up.
IsRefillLevelUp ==
  /\ variant \in {"arpg", "town"}
  /\ clock = "calls"
  /\ ~IsContact
  /\ game'.player.level > game.player.level

\* C26: in the ARPG and the town variant a _grantXp() call that levels up
\* leaves health = maxHealth and mana = maxMana, with maxima strictly above
\* those before the call, whatever the health was before.
C26_LevelUpRefills ==
  [][IsRefillLevelUp =>
       /\ game'.player.health = game'.player.maxHealth
       /\ game'.player.mana = game'.player.maxMana
       /\ game'.player.maxHealth > game.player.maxHealth
       /\ game'.player.maxMana > game.player.maxMana]_vars

\* An ARPG player who was hit and then levelled up: the pulse of the
\* level-up follows the pulse of the hit, and the health is full.
C26_Witness ==
  /\ variant = "arpg" /\ clock = "calls"
  /\ game.player.level >= 2
  /\ game.player.health = game.player.maxHealth
  /\ HitPulses(game.pulses) > 0
  /\ game.pulses[Len(game.pulses)].color = "rgba(120, 220, 255, 0.95)"


\* A _grantXp() call of the orchestrator.
IsOrchestratorGrant ==
  /\ variant = "orchestrator"
  /\ clock = "calls"
  /\ IsTick
  /\ "hit" \notin DOMAIN last'

\* C27: a level-up of the orchestrator neither refills nor merely clamps:
\* a _grantXp() call that gains one level raises the health by
\* max(5, hpPerLevel) and the mana by max(3, manaPerLevel), capped at the
\* new maxima, in a run as outside one; a call that gains levels never
\* lowers health or mana and keeps them within the new maxima, and a call
\* that gains no level leaves both as they were.
C27_LevelUpHealsPartly ==
  [][IsOrchestratorGrant =>
       LET p == game.player
           q == game'.player
           progCfg == game.config.progression
       IN /\ q.level = p.level => q.health = p.health /\ q.mana = p.mana
          /\ q.level > p.level =>
               /\ q.health >= p.health /\ q.health <= q.maxHealth
               /\ q.mana >= p.mana /\ q.mana <= q.maxMana
          /\ q.level = p.level + 1 =>
               /\ q.health = Min(q.maxHealth,
                                 p.health + Max(5, progCfg.hpPerLevel))
               /\ q.mana = Min(q.maxMana,
                               p.mana + Max(3, progCfg.manaPerLevel))]_vars

\* C27 as stated: while the run is playing, _grantXp() never increases the
\* current health or mana.
C27_GrantNeverHeals ==
  [][(IsOrchestratorGrant /\ game.state = "playing") =>
       /\ game'.player.health <= game.player.health
       /\ game'.player.mana <= game.player.mana]_vars

\* A player hit in a run whom a level-up has healed since, short of the new
\* maximum.
C27_Witness ==
  /\ variant = "orchestrator" /\ clock = "calls"
  /\ game.state = "playing"
  /\ game.player.level = 2
  /\ HitPulses(game.pulses) = 1
  /\ game.pulses[Len(game.pulses)].color = "rgba(120, 230, 255, 0.9)"
  /\ game.player.health
       = game.config.player.maxHealth
           + Round(game.config.player.baseStrength * 15, 10)
           - game.config.hazards.damagePerHit
           + Max(5, game.config.progression.hpPerLevel)
  /\ game.player.health < game.player.maxHealth


\* C28: the engine invokes game.update() at most once per animation frame,
\* whatever sequence of start() and stop() calls the page has made: at most
\* one chain of _loop callbacks is alive.
C28_OneUpdatePerFrame ==
  variant = "engine" =>
    /\ game.updates <= 1
    /\ game.requested + game.due <= 1


\* C29: in an execution of the orchestrator driven by the start key and the
\* frames, the run notifications alternate, beginning with run-started:
\* every start sends run-started once, the tick in which the health reaches
\* 0 sends run-ended once with the timeAlive of the run that ends, and no
\* other step sends a notification.
C29_RunNotesAlternate ==
  [][variant = "orchestrator" /\ clock # "calls" /\ clock # "ramp" =>
       LET started == game.state # "playing" /\ game'.state = "playing"
           ended == game.state = "playing" /\ game'.state = "gameover"
       IN /\ last'.notes.alternating
          /\ started => /\ ~IsTick
                        /\ last'.notes = RunNoted(last.notes, "started", 0)
                        /\ last.notes.last # "started"
          /\ ended => /\ IsTick
                      /\ last'.notes
                           = RunNoted(last.notes, "ended", game'.timeAlive)
                      /\ last.notes.last = "started"
                      /\ game'.timeAlive >= game.timeAlive
                      /\ game'.bestTime >= game'.timeAlive
          /\ ~started /\ ~ended => last'.notes = last.notes]_vars

\* The start of a second run: run-started follows the run-ended of a run
\* that lasted some time.
C29_Witness ==
  /\ variant = "orchestrator"
  /\ game.state = "playing"
  /\ game.bestTime > 0
  /\ game.timeAlive = 0
  /\ last.notes.last = "started"
  /\ last.notes.alternating


\* The hazards of g within the hit radius of the player.
Touching(g) ==
  {i \in 1..Len(g.hazards) :
     LET dx == g.hazards[i].x - g.player.x
         dy == g.hazards[i].y - g.player.y
         r == g.hazards[i].radius + g.player.radius
     IN dx * dx + dy * dy <= r * r}

\* The hazards of g in the near-miss band: beyond the hit radius and within
\* the hit radius + 14.
InBand(g) ==
  {i \in 1..Len(g.hazards) :
     LET dx == g.hazards[i].x - g.player.x
         dy == g.hazards[i].y - g.player.y
         r == g.hazards[i].radius + g.player.radius
     IN /\ dx * dx + dy * dy > r * r
        /\ dx * dx + dy * dy <= (r + 14) * (r + 14)}

\* An update() of the orchestrator or the survival variant that starts in a
\* run and reaches its collision pass (the survival update() throws before
\* it under a configuration that lacks a group); the hazards and the player
\* it leaves are those the collision pass has seen.
IsRunTick ==
  /\ IsTick
  /\ variant \in {"orchestrator", "survival"}
  /\ game.state = "playing"
  /\ variant = "survival" => WholeConfig(game)

\* C30: a tick of a run with a damaging hit resets the near-miss streak to
\* 0; a tick without one and with at least one hazard in the near-miss band
\* raises it by exactly 1, up to 99, however many hazards are in the band;
\* any other tick leaves it; a start resets it.  A damaging hit comes from a
\* hazard within the hit radius, never from one in the band.
C30_NearMissStreak ==
  [][/\ IsRunTick =>
          LET hits == HitsApplied(game, game', game'.time - game.time)
              streak == game.nearMissStreak
          IN /\ hits > 0 => /\ game'.nearMissStreak = 0
                            /\ Touching(game') # {}
                            /\ hits <= Cardinality(Touching(game'))
             /\ (hits = 0 /\ InBand(game') # {}) =>
                  game'.nearMissStreak = Min(streak + 1, 99)
             /\ (hits = 0 /\ InBand(game') = {}) =>
                  game'.nearMissStreak = streak
     /\ (variant \in {"orchestrator", "survival"}
           /\ game.state # "playing" /\ game'.state = "playing") =>
          game'.nearMissStreak = 0]_vars


\* The streak stands at its cap of 99 after more than 99 collision passes
\* in a row that saw a hazard in the band and no damaging hit.
C30_Witness ==
  /\ clock = "graze"
  /\ game.state = "playing"
  /\ game.nearMissStreak = 99
  /\ InBand(game) # {}
  /\ ticks = GrazeTicks
  /\ last.sinceHit = -1

\* What the player of g moves at under input, as a velocity: the direction
\* held times the speed.
VelocityAt(input, speed) ==
  [vx |-> ((IF input.right THEN 1 ELSE 0) - (IF input.left THEN 1 ELSE 0)) * speed,
   vy |-> ((IF input.down THEN 1 ELSE 0) - (IF input.up THEN 1 ELSE 0)) * speed]

\* An update() of a run in SpecDash.
IsDashTick == ticks' = ticks + 1 /\ game.state = "playing"

\* The speed and the cooldown every update() of a run leaves.
DashSpeedAndCooldown ==
  LET p == game.player
      q == game'.player
      dt == last'.dt
      input == last'.input
      dashed == DashSelected(variant, game, dt, input)
      v == VelocityAt(input, IF dashed THEN p.dashSpeed ELSE p.baseSpeed)
  IN /\ q.vx = v.vx /\ q.vy = v.vy
     /\ q.dashCooldown =
          IF variant = "arpg"
          THEN (IF dashed THEN p.dashCooldownMax
                ELSE IF p.dashCooldown > 0 THEN Max(0, p.dashCooldown - dt)
                ELSE p.dashCooldown)
          ELSE Max(0, (IF dashed THEN game.config.player.dashCooldown
                       ELSE p.dashCooldown) - dt)

\* C31 (as amended): in an update() of a run the player's velocity is the
\* direction held times the dash speed if the dash intent is set and the
\* dash cooldown is not positive when the speed is chosen, and times the
\* base speed otherwise; a dash sets the cooldown to the configured maximum
\* whether or not a direction is held, which the orchestrator then counts
\* down by the dt of the same update and the ARPG only from the next update
\* on.  So between two updates that dash, the ARPG has counted at least
\* dashCooldownMax of dt after the first up to and including the second, and
\* the orchestrator at least the configured cooldown from the dt of the
\* first up to the dt before the second.
C31_DashWaitsForCooldown ==
  [][IsDashTick =>
       /\ DashSpeedAndCooldown
       /\ (DashSelected(variant, game, last'.dt, last'.input) /\ last.since >= 0)
            => IF variant = "arpg"
               THEN last.since + last'.dt >= game.player.dashCooldownMax
               ELSE last.dashDt + last.since >= game.config.player.dashCooldown]_vars

\* C31 (as stated): between two updates that dash, at least the configured
\* cooldown of simulated time has passed: the dt of the updates after the
\* first, up to and including the second.
C31_DashesACooldownApart ==
  [][(IsDashTick /\ DashSelected(variant, game, last'.dt, last'.input)
        /\ last.since >= 0)
       => last.since + last'.dt >=
            (IF variant = "arpg" THEN game.player.dashCooldownMax
             ELSE game.config.player.dashCooldown)]_vars

\* A second dash of a run has just been made, with no direction held: the
\* player stands and the cooldown runs again.
C31_Witness ==
  /\ last.dashes = 2 /\ last.since = 0
  /\ ~last.input.left /\ last.input.dash
  /\ game.state = "playing"
  /\ game.player.vx = 0
  /\ game.player.dashCooldown > 0

\* An update() of a run in SpecArena.
IsArenaTick == ticks' = ticks + 1 /\ game.state = "playing"

\* The input holds no direction, or directions that cancel.
NoDirection(input) ==
  input.left = input.right /\ input.up = input.down

\* v brought into lo .. hi, for lo <= hi.
Within(v, lo, hi) == IF v < lo THEN lo ELSE IF v > hi THEN hi ELSE v

\* C32 (as amended): after every update() of a run, for any dt >= 0 and any
\* input, in an arena at least 2 * (radius + 8) wide the player's x is in
\* radius + 8 .. width - radius - 8, and likewise its y in an arena that
\* high; with no directional intent, or with opposing intents cancelling,
\* the velocity is exactly zero and the position is the one before the
\* update brought into the inset rectangle of the arena as it is now: it is
\* unchanged unless the arena has shrunk around the player.
C32_PlayerStaysInArena ==
  [][IsArenaTick =>
       LET p == game.player
           q == game'.player
           inset == p.radius + 8
           w == CanvasW(game)
           h == CanvasH(game)
       IN /\ w >= 2 * inset => (inset <= q.x /\ q.x <= w - inset)
          /\ h >= 2 * inset => (inset <= q.y /\ q.y <= h - inset)
          /\ (NoDirection(last'.input) /\ w >= 2 * inset /\ h >= 2 * inset)
               => /\ q.vx = 0 /\ q.vy = 0
                  /\ q.x = Within(p.x, inset, w - inset)
                  /\ q.y = Within(p.y, inset, h - inset)]_vars

\* C32 (as stated): with no directional intent, or with opposing intents
\* cancelling, an update() of a run leaves the position unchanged.
C32_StandingPlayerStaysPut ==
  [][(IsArenaTick /\ NoDirection(last'.input)
        /\ CanvasW(game) >= 2 * (game.player.radius + 8)
        /\ CanvasH(game) >= 2 * (game.player.radius + 8))
       => /\ game'.player.x = game.player.x
          /\ game'.player.y = game.player.y]_vars

\* After a frame of 10 s that took the player to the left edge of the
\* arena, a frame of 10 s with left and right held has left the player
\* standing there.
C32_Witness ==
  /\ game.state = "playing"
  /\ last.dt = 1000
  /\ last.input.left /\ last.input.right
  /\ game.player.x = game.player.radius + 8
  /\ game.player.vx = 0
  /\ CanvasW(game) >= 2 * (game.player.radius + 8)

\* The hazards of g that an update of dt moves and keeps on screen.
KeptOf(g, dt) ==
  Cardinality({i \in 1..Len(g.hazards) :
                 LET x == g.hazards[i].x + (g.hazards[i].vx * dt) \div 100
                     y == g.hazards[i].y + (g.hazards[i].vy * dt) \div 100
                 IN ~(x < -80 \/ x > CanvasW(g) + 80
                      \/ y < -80 \/ y > CanvasH(g) + 80)})

\* C33: in an update(dt, .) of an orchestrator run the spawner adds hazards
\* only if spawnTimer - dt <= 0, and then no more than one invocation adds
\* (all of them, when the frame is too short to take a new hazard off the
\* screen; none when the arena is full); the timer is then the spawn
\* interval of that update, whatever the overshoot and whether or not
\* hazards were added, and spawnTimer - dt otherwise; from a start on, the
\* timer falls due in the first update that brings the run to 0.4 s.
C33_SpawnerOncePerDueTick ==
  [][(variant = "orchestrator" /\ IsTick /\ game.state = "playing")
     => LET dt == game'.time - game.time
            timer == MinusInt(game.spawnTimer, dt)
            due == LeqZero(timer)
            added == Len(game'.hazards) - KeptOf(game, dt)
            cap == IF game.config.hazards.maxOnScreen = 0 THEN 40
                   ELSE game.config.hazards.maxOnScreen
            once == Min(1 + Crossed(game'), Max(0, cap - Len(game.hazards)))
        IN /\ game'.spawnInterval
                = SpawnIntervalAt(game'.timeAlive, game.config.hazards)
           /\ game'.spawnTimer = IF due THEN game'.spawnInterval ELSE timer
           /\ ~due => added = 0
           /\ due => added <= once
           /\ (due /\ dt <= 25) => added = once
           /\ game.timeAlive < 40 => (due <=> game'.timeAlive >= 40)]_vars

\* The spawner has just run with the arena full, in a run of uneven frames:
\* the timer is reset and no hazard was added.
C33_Witness ==
  /\ variant = "orchestrator"
  /\ game.state = "playing"
  /\ last.spawned = 0
  /\ Len(game.hazards) = game.config.hazards.maxOnScreen
  /\ game.spawnTimer = game.spawnInterval
  /\ game.timeAlive % 20 # 0

\* The sockets the client has made whose connection is being made or is
\* established.
LiveSockets(c) ==
  {n \in 1..Len(c.sockets) : c.sockets[n].readyState \in {"connecting", "open"}}

\* C34: the client makes a socket only in a tick() that finds a websocketUrl
\* configured, no socket held (this.ws null) and, with the dt of the tick,
\* at least wsReconnectDelay (5 s) counted by wsLastAttempt, which is the
\* dt of the ticks since the last attempt, or since the construction, under
\* a configured URL; so at most one socket is live at any time, and it is
\* the one held; wsConnected implies that a socket is held, and it is open;
\* and a tick sends a frame only if it found the client connected.
C34_OneSocketAtATime ==
  /\ [](variant = "net" =>
          /\ Cardinality(LiveSockets(game)) <= 1
          /\ LiveSockets(game) \subseteq {game.ws}
          /\ game.wsConnected =>
               (game.ws # 0 /\ game.sockets[game.ws].readyState = "open"))
  /\ [][variant = "net" =>
          /\ Len(game'.sockets) > Len(game.sockets) =>
               /\ Len(game'.sockets) = Len(game.sockets) + 1
               /\ last'.op = "tick"
               /\ game.websocketUrl # ""
               /\ game.ws = 0
               /\ game.wsLastAttempt + last'.dt >= game.wsReconnectDelay
               /\ game.wsReconnectDelay = 500
               /\ game'.wsLastAttempt = 0
          /\ (last'.op = "tick" /\ Len(game'.sockets) = Len(game.sockets)) =>
               game'.wsLastAttempt =
                 IF game.websocketUrl = "" THEN game.wsLastAttempt
                 ELSE game.wsLastAttempt + last'.dt
          /\ last'.op # "tick" => game'.wsLastAttempt = game.wsLastAttempt
          /\ (last'.op = "tick" /\ game'.frames > game.frames) =>
               game.wsConnected /\ game'.wsConnected]_vars

\* The client holds its second socket, open and connected, after the first
\* was closed, and a tick has just sent a frame over it.
C34_Witness ==
  /\ variant = "net"
  /\ Len(game.sockets) = 2
  /\ game.sockets[1].readyState = "closed"
  /\ game.ws = 2 /\ game.wsConnected
  /\ game.sockets[2].readyState = "open"
  /\ last.op = "tick" /\ last.dt > 0
  /\ game.frames >= 2

\* The mob m is inside the zone rectangle inset by its radius.
InZone(m) ==
  LET rect == GetStaticZoneRect IN
  /\ rect.minX + m.radius <= m.x /\ m.x <= rect.maxX - m.radius
  /\ rect.minY + m.radius <= m.y /\ m.y <= rect.maxY - m.radius

\* C35: an update() of an ARPG run adds at most one mob to those it keeps,
\* and only if these are fewer than min(20, 9 + floor(runTime / 20 s)); the
\* mob added has level 1 + floor(runTime / 45 s); the game never holds more
\* than 20 mobs; after every update each mob is inside the zone rectangle
\* inset by its radius.
C35_MobsCappedAndInZone ==
  /\ [](variant = "arpg" => Len(game.mobs) <= 20)
  /\ [][(variant = "arpg" /\ ticks' = ticks + 1 /\ game.state = "playing")
        => LET kept == Cardinality({k \in 1..Len(game.mobs) :
                                      game.mobs[k].alive \/ game.mobs[k].health > 0})
               added == Len(game'.mobs) - kept
               new == game'.mobs[Len(game'.mobs)]
           IN /\ added \in {0, 1}
              /\ added = 1 =>
                   /\ kept < Min(20, 9 + game'.runTime \div 2000)
                   /\ new.level = 1 + game'.runTime \div 4500
                   /\ new.health = new.maxHealth
                   /\ new.alive
              /\ \A k \in 1..Len(game'.mobs) : InZone(game'.mobs[k])]_vars

\* The game holds 20 mobs, the last one spawned in a frame that did not
\* advance the time, five minutes into the run at level 7 or above.
C35_Witness ==
  /\ variant = "arpg" /\ clock = "horde"
  /\ game.state = "playing"
  /\ Len(game.mobs) = 20
  /\ last.dt = 0
  /\ game.mobs[20].level = 1 + game.runTime \div 4500
  /\ game.mobs[20].level >= 7
  /\ game.mobs[20].x = GetStaticZoneRect.minX + 600

\* C36: a step of the orchestrator that starts a run leaves the player's
\* level, xp and gold and the best time as they were, and xpToNext too once
\* the player is initialised from the configuration (the start that
\* initialises the player sets it to the threshold of level 2); the run's
\* clock, hazards and pulses are reset.
C36_StartKeepsProgression ==
  [][(variant = "orchestrator" /\ game.state # "playing"
        /\ game'.state = "playing")
     => LET p == game.player
            q == game'.player
        IN /\ q.level = p.level /\ q.xp = p.xp /\ q.gold = p.gold
           /\ game'.bestTime = game.bestTime
           /\ q.xpToNext = IF p.initializedFromConfig THEN p.xpToNext
                           ELSE ComputeXpForLevel(p.level + 1,
                                                  game.config.progression)
           /\ q.initializedFromConfig
           /\ game'.timeAlive = 0 /\ game'.hazards = <<>>
           /\ game'.pulses = <<>>]_vars

\* A run has just been started by a player above level 1 with experience
\* towards the next level, after a run that left a best time.
C36_Witness ==
  /\ variant = "orchestrator"
  /\ game.state = "playing" /\ game.timeAlive = 0
  /\ last.notes.last = "started"
  /\ game.player.level > 1
  /\ game.player.xp > 0
  /\ game.bestTime > 0

\* The seven statistics _grantXp() accumulates and _applyConfigToPlayer()
\* re-derives.
DerivedStats(p) ==
  <<p.strength, p.agility, p.intelligence, p.maxHealth, p.maxMana,
    p.attackPower, p.defense>>

\* C37: in the orchestrator, at every level reached by level-ups under one
\* configuration, the strength, agility, intelligence, maxHealth, maxMana,
\* attackPower and defense that _grantXp() has accumulated are the values
\* _applyConfigToPlayer() re-derives for that level.
C37_AccumulatedStatsAreRederived ==
  (variant = "orchestrator" /\ game.player.initializedFromConfig)
    => DerivedStats(game.player) = DerivedStats(ApplyConfigToPlayer(game).player)

\* C38: whenever the run state of the orchestrator or the ARPG variant is
\* gameover or dead the player's health is 0, and no step that leaves the game
\* ended, the tick of the death included, changes the experience, the level
\* or the gold.
C38_EndedRunGainsNothing ==
  /\ []((variant \in {"orchestrator", "arpg"}
           /\ game.state \in {"gameover", "dead"})
          => game.player.health = 0)
  /\ [][(variant \in {"orchestrator", "arpg"}
           /\ game'.state \in {"gameover", "dead"})
          => /\ game'.player.xp = game.player.xp
             /\ game'.player.level = game.player.level
             /\ game'.player.gold = game.player.gold]_vars

\* C39: in the ARPG an update() adds one projectile, and no more, when an
\* attack was requested and the cooldown it has counted down is over (the
\* projectile is there after an update of dt 0; a longer one may have taken it
\* out of the zone or through its life already), and none otherwise; the
\* request is cleared either way, so that one made during the cooldown is
\* dropped; the attack restarts the cooldown; and no more than 2 projectiles
\* are ever in flight.
C39_AttackOncePerCooldown ==
  /\ [](variant = "arpg" => Len(game.projectiles) <= 2)
  /\ [][(variant = "arpg" /\ ticks' = ticks + 1 /\ game.state = "playing")
        => LET dt == last'.dt
               ready == game.player.attackCooldown - dt <= 0
               fired == game.pendingAttack /\ ready
               kept == Len(UpdateProjectiles(game, dt).projectiles)
           IN /\ ~game'.pendingAttack
              /\ Len(game'.projectiles)
                   \in (IF ~fired THEN {kept}
                        ELSE IF dt = 0 THEN {kept + 1} ELSE {kept, kept + 1})
              /\ fired => game'.player.attackCooldown
                            = game.player.attackCooldownMax
              /\ ~fired => game'.player.attackCooldown
                             = Max(0, game.player.attackCooldown - dt)]_vars

\* A third attack of the run has just been made, a request during the cooldown
\* having been dropped before, and the projectile of the second is in flight
\* with it.
C39_Witness ==
  /\ variant = "arpg" /\ clock = "skirmish" /\ fetch = "failed"
  /\ game.state = "playing"
  /\ last.attacks = 3
  /\ last.requested /\ last.dropped
  /\ game.player.attackCooldown = game.player.attackCooldownMax
  /\ Len(game.projectiles) = 2
  /\ \A k \in 1..2 : game.projectiles[k].life > 0

=============================================================================
